---------------------------- MODULE Spec2Model ----------------------------
(***************************************************************************)
(* Release catalog of ALT Media Writer (src/app/releasemanager.cpp):       *)
(* the Release -> Version -> Variant tree held by ReleaseListModel and the *)
(* merge operation ReleaseManager::updateUrl with the operations it calls. *)
(*                                                                         *)
(* A QString is a sequence of one-character strings, so that comparison,   *)
(* substring search, lower-casing and trimming are computed on characters. *)
(***************************************************************************)
EXTENDS Integers, Sequences, FiniteSets, TLC

VARIABLES
    sections,        \* the members of the sections files, in file order
    releases,        \* ReleaseListModel::m_releases with everything owned below it
    m_selectedIndex, \* ReleaseManager::m_selectedIndex
    m_frontPage,     \* ReleaseManager::m_frontPage
    m_filterText,    \* ReleaseManager::m_filterText
    m_filterArchitecture,           \* ReleaseManager::m_filterArchitecture
    proxyRows,       \* the source rows the QSortFilterProxyModel shows
    m_beingUpdated,                 \* ReleaseManager::m_beingUpdated
    currentDownloadingReleaseIndex, \* index into the list of release image files
    fetches,         \* page requests handed to DownloadManager::fetchPageAsync, unanswered
    crashed,         \* the process was ended by a null pointer dereference
    timers,          \* pending QTimer::singleShot calls of fetchReleases
    cache,           \* the files of releaseImagesCacheDir(), one per release image file
    job              \* the RestoreJob of the helper process: where work() stands and what it did

\* The members of ReleaseManager that select what the view shows, and the view
viewVars == <<m_frontPage, m_filterText, m_filterArchitecture, proxyRows>>

\* The state of the ingestion of the release image files
loaderVars == <<m_beingUpdated, currentDownloadingReleaseIndex, fetches, timers, cache>>

vars == <<sections, releases, m_selectedIndex, viewVars, loaderVars, crashed, job>>

---------------------------------------------------------------------------
(* QString / QChar                                                         *)

Digits == <<"0", "1", "2", "3", "4", "5", "6", "7", "8", "9">>

UpperCase == <<"A", "B", "C", "D", "E", "F", "G", "H", "I", "J", "K", "L", "M",
               "N", "O", "P", "Q", "R", "S", "T", "U", "V", "W", "X", "Y", "Z">>

LowerCase == <<"a", "b", "c", "d", "e", "f", "g", "h", "i", "j", "k", "l", "m",
               "n", "o", "p", "q", "r", "s", "t", "u", "v", "w", "x", "y", "z">>

IndexIn(seq, c) == CHOOSE i \in 1..Len(seq) : seq[i] = c

IsIn(seq, c) == \E i \in 1..Len(seq) : seq[i] = c

Range(seq) == {seq[i] : i \in 1..Len(seq)}

\* The characters that occur in the catalog and in the update records.
Chars == Range(Digits) \cup Range(UpperCase) \cup Range(LowerCase)
             \cup {" ", "-", ".", "/", ":", "&", ";"}

\* UTF-16 code unit of each character.
CodeUnit ==
    [c \in Chars |->
        IF c = " " THEN 32
        ELSE IF c = "&" THEN 38
        ELSE IF c = "-" THEN 45
        ELSE IF c = "." THEN 46
        ELSE IF c = "/" THEN 47
        ELSE IF c = ":" THEN 58
        ELSE IF c = ";" THEN 59
        ELSE IF IsIn(Digits, c) THEN 47 + IndexIn(Digits, c)
        ELSE IF IsIn(UpperCase, c) THEN 64 + IndexIn(UpperCase, c)
        ELSE 96 + IndexIn(LowerCase, c)]

\* QChar::toLower of each character.
CharToLower ==
    [c \in Chars |->
        IF IsIn(UpperCase, c) THEN LowerCase[IndexIn(UpperCase, c)] ELSE c]

\* QString::toLower
ToLower(s) == [i \in 1..Len(s) |-> CharToLower[s[i]]]

\* QChar::isSpace
IsSpace(c) == c = " "

\* QString::operator< : lexicographic on code units, a proper prefix is smaller.
StrLess(a, b) ==
    \E k \in 1..(Len(b)) :
        /\ \A j \in 1..(k - 1) : j <= Len(a) /\ a[j] = b[j]
        /\ Len(a) >= k - 1
        /\ \/ Len(a) = k - 1
           \/ CodeUnit[a[k]] < CodeUnit[b[k]]

\* QString::contains(needle), case sensitive: needle occurs as a substring.
Contains(hay, needle) ==
    \E off \in 0..(Len(hay) - Len(needle)) :
        \A j \in 1..Len(needle) : hay[off + j] = needle[j]

\* QString::compare(a, b, Qt::CaseInsensitive) == 0
EqualsIgnoreCase(a, b) ==
    /\ Len(a) = Len(b)
    /\ \A i \in 1..Len(a) : CharToLower[a[i]] = CharToLower[b[i]]

\* QString::trimmed : strips leading and trailing white space.
Trimmed(s) ==
    IF \A i \in 1..Len(s) : IsSpace(s[i]) THEN <<>>
    ELSE LET first == CHOOSE i \in 1..Len(s) :
                          ~IsSpace(s[i]) /\ \A j \in 1..(i - 1) : IsSpace(s[j])
             last  == CHOOSE i \in 1..Len(s) :
                          ~IsSpace(s[i]) /\ \A j \in (i + 1)..Len(s) : IsSpace(s[j])
         IN  SubSeq(s, first, last)

\* QString::isEmpty
IsEmpty(s) == Len(s) = 0

---------------------------------------------------------------------------
(* ReleaseArchitecture                                                     *)

nullptr == -1

\* ReleaseArchitecture::m_all, in declaration order; a pointer into the array
\* is modelled by its index (ReleaseArchitecture::index), 0 .. _ARCHCOUNT-1.
m_all ==
    << [abbreviation |-> << <<"x", "8", "6", "-", "6", "4">> >>,
        description  |-> "AMD 64bit"],
       [abbreviation |-> << <<"x", "8", "6">>, <<"i", "3", "8", "6">>,
                            <<"i", "5", "8", "6">>, <<"i", "6", "8", "6">> >>,
        description  |-> "Intel 32bit"],
       [abbreviation |-> << <<"a", "r", "m", "v", "7", "h", "l">>,
                            <<"a", "r", "m", "h", "f", "p">>,
                            <<"a", "r", "m", "h">> >>,
        description  |-> "ARM v7"],
       [abbreviation |-> << <<"a", "a", "r", "c", "h", "6", "4">> >>,
        description  |-> "AArch64"],
       [abbreviation |-> << <<"m", "i", "p", "s", "e", "l">> >>,
        description  |-> "MIPS"],
       [abbreviation |-> << <<"r", "i", "s", "c", "v">>,
                            <<"r", "i", "s", "c", "v", "6", "4">> >>,
        description  |-> "RiscV64"],
       [abbreviation |-> << <<"e", "2", "k">> >>,
        description  |-> "Elbrus"],
       [abbreviation |-> << <<"p", "p", "c", "6", "4", "l", "e">> >>,
        description  |-> "PowerPC"],
       [abbreviation |-> << <<>>, <<"u", "n", "k", "n", "o", "w", "n">> >>,
        description  |-> "Unknown"] >>

_ARCHCOUNT == Len(m_all)

X86_64 == 0

ARCH_UNKNOWN == 8

\* QStringList::contains(str, Qt::CaseInsensitive): some element equals str
\* when letter case is ignored.
ListContainsIgnoreCase(list, str) ==
    \E j \in 1..Len(list) : EqualsIgnoreCase(list[j], str)

\* ReleaseArchitecture::isKnown
isKnown(abbr) ==
    \E i \in 0..(_ARCHCOUNT - 1) :
        ListContainsIgnoreCase(m_all[i + 1].abbreviation, abbr)

\* ReleaseArchitecture::fromAbbreviation: the first entry of m_all, else nullptr.
fromAbbreviation(abbr) ==
    IF isKnown(abbr)
    THEN CHOOSE i \in 0..(_ARCHCOUNT - 1) :
             /\ ListContainsIgnoreCase(m_all[i + 1].abbreviation, abbr)
             /\ \A k \in 0..(i - 1) :
                    ~ListContainsIgnoreCase(m_all[k + 1].abbreviation, abbr)
    ELSE nullptr

---------------------------------------------------------------------------
(* ReleaseVersion::Status, ReleaseVariant::Status                          *)

FINAL == 0
RELEASE_CANDIDATE == 1
BETA == 2
ALPHA == 3

S_alpha == <<"a", "l", "p", "h", "a">>
S_beta  == <<"b", "e", "t", "a">>

\* status == "alpha" ? ALPHA : status == "beta" ? BETA : FINAL
StatusFromText(status) ==
    IF status = S_alpha THEN ALPHA ELSE IF status = S_beta THEN BETA ELSE FINAL

\* QDateTime: the null QDateTime() is "", any other value is a valid date.
NullDate == ""

IsValidDate(d) == d # NullDate

---------------------------------------------------------------------------
(* ReleaseVariant                                                          *)

\* ReleaseVariant::ReleaseVariant(parent, url, shaHash, md5, size, arch,
\* imageType, board); the other members keep their default initialisers.
\* transfer and md5sum are not members: they tell whether DownloadManager has
\* a file download running, and a page request outstanding, for this variant;
\* cancelled tells whether the running download was told to cancel.
NewVariant(url, shaHash, md5, size, arch, imageType, board) ==
    [ arch      |-> arch,
      imageType |-> imageType,
      board     |-> board,
      url       |-> url,
      shaHash   |-> shaHash,
      md5       |-> md5,
      size      |-> size,
      image     |-> <<>>,
      status    |-> "PREPARING",
      error     |-> <<>>,
      temporaryImage |-> <<>>,
      realSize  |-> 0,
      progress  |-> <<>>,
      transfer  |-> FALSE,
      md5sum    |-> FALSE,
      cancelled |-> FALSE ]

\* Mutant: a changed variant starts over in PREPARING without its image.
VariantUpdateUrl_StartsOver(v, url, sha256, size) ==
    LET urlCh  == ~IsEmpty(url) /\ Trimmed(v.url) # Trimmed(url)
        shaCh  == ~IsEmpty(sha256) /\ Trimmed(v.shaHash) # Trimmed(sha256)
        sizeCh == size # 0 /\ v.size # size
        ch     == urlCh \/ shaCh \/ sizeCh
    IN  [ variant |-> [v EXCEPT !.url     = IF urlCh THEN url ELSE @,
                                !.shaHash = IF shaCh THEN sha256 ELSE @,
                                !.size    = IF sizeCh THEN size ELSE @,
                                !.status  = IF ch THEN "PREPARING" ELSE @,
                                !.image   = IF ch THEN <<>> ELSE @],
          ret     |-> ch,
          signals |-> <<>> ]

\* Mutant: the incoming url, hash and size are stored as they come.
VariantUpdateUrl_Overwrites(v, url, sha256, size) ==
    [ variant |-> [v EXCEPT !.url = url, !.shaHash = sha256, !.size = size],
      ret     |-> TRUE,
      signals |-> <<"urlChanged", "shaHashChanged", "sizeChanged", "realSizeChanged">> ]

\* ReleaseVariant::updateUrl: the updated variant, the value returned and the
\* signals emitted.
VariantUpdateUrl(v, url, sha256, size) ==
    LET urlCh  == ~IsEmpty(url) /\ Trimmed(v.url) # Trimmed(url)
        shaCh  == ~IsEmpty(sha256) /\ Trimmed(v.shaHash) # Trimmed(sha256)
        sizeCh == size # 0 /\ v.size # size
    IN  [ variant |-> [v EXCEPT !.url     = IF urlCh THEN url ELSE @,
                                !.shaHash = IF shaCh THEN sha256 ELSE @,
                                !.size    = IF sizeCh THEN size ELSE @],
          ret     |-> urlCh \/ shaCh \/ sizeCh,
          signals |-> (IF urlCh THEN <<"urlChanged">> ELSE <<>>)
                      \o (IF shaCh THEN <<"shaHashChanged">> ELSE <<>>)
                      \o (IF sizeCh THEN <<"sizeChanged", "realSizeChanged">> ELSE <<>>) ]

---------------------------------------------------------------------------
(* ReleaseVersion                                                          *)

\* ReleaseVersion::ReleaseVersion(parent, number, status, releaseDate)
NewVersion(number, status, releaseDate) ==
    [ number          |-> number,
      status          |-> status,
      releaseDate     |-> releaseDate,
      variants        |-> <<>>,
      selectedVariant |-> 0 ]

\* Signals of that constructor: if (status != FINAL) emit parent->prereleaseChanged()
NewVersionSignals(status) ==
    IF status # FINAL THEN <<"prereleaseChanged">> ELSE <<>>

\* ReleaseVersion::addVariant
addVariant(ver, v) == [ver EXCEPT !.variants = Append(@, v)]

addVariantSignals(ver) ==
    <<"variantsChanged">>
    \o (IF Len(ver.variants) + 1 = 1 THEN <<"selectedVariantChanged">> ELSE <<>>)

\* QList::insert(i, x): x is placed before the element at 0-based position i;
\* i <= 0 prepends and i >= size appends.
ListInsert(list, i, x) ==
    LET j == IF i <= 0 THEN 0 ELSE IF i >= Len(list) THEN Len(list) ELSE i
    IN  SubSeq(list, 1, j) \o <<x>> \o SubSeq(list, j + 1, Len(list))

\* QList::removeAt(i), 0-based
ListRemoveAt(list, i) ==
    SubSeq(list, 1, i) \o SubSeq(list, i + 2, Len(list))

\* ReleaseVersion::selectedVariant: 1-based position in variants, 0 for nullptr
selectedVariant(ver) ==
    IF ver.selectedVariant >= 0 /\ ver.selectedVariant < Len(ver.variants)
    THEN ver.selectedVariant + 1
    ELSE 0

\* ReleaseVersion::setSelectedVariantIndex
setSelectedVariantIndex(ver, o) ==
    IF /\ ver.selectedVariant # o
       /\ ver.selectedVariant >= 0
       /\ ver.selectedVariant < Len(ver.variants)
    THEN [ver EXCEPT !.selectedVariant = o]
    ELSE ver

\* Mutant: the search for an existing variant finds nothing.
FindVariant_NotFound(variants, arch, board) == 0

\* Mutant: the board test is inverted, i->board() != board.
FindVariant_WrongBoard(variants, arch, board) ==
    IF \E i \in 1..Len(variants) : variants[i].arch = arch /\ variants[i].board # board
    THEN CHOOSE i \in 1..Len(variants) :
             /\ variants[i].arch = arch /\ variants[i].board # board
             /\ \A k \in 1..(i - 1) :
                    ~(variants[k].arch = arch /\ variants[k].board # board)
    ELSE 0

\* First loop of ReleaseVersion::updateUrl: 1-based position of the first
\* variant with this architecture and board, 0 when there is none.
FindVariant(variants, arch, board) ==
    IF \E i \in 1..Len(variants) : variants[i].arch = arch /\ variants[i].board = board
    THEN CHOOSE i \in 1..Len(variants) :
             /\ variants[i].arch = arch /\ variants[i].board = board
             /\ \A k \in 1..(i - 1) :
                    ~(variants[k].arch = arch /\ variants[k].board = board)
    ELSE 0

\* Mutant: a new variant is always placed first.
InsertOrder_Front(variants, arch) == 0

\* Second loop of ReleaseVersion::updateUrl: the number of leading variants
\* whose architecture is not after arch in m_all (the loop breaks at the first
\* variant with i->arch() > arch).
InsertOrder(variants, arch) ==
    IF \E i \in 1..Len(variants) : variants[i].arch > arch
    THEN (CHOOSE i \in 1..Len(variants) :
              /\ variants[i].arch > arch
              /\ \A k \in 1..(i - 1) : ~(variants[k].arch > arch)) - 1
    ELSE Len(variants)

\* Mutant: every incoming status is accepted, also a less final one.
StatusAccepted_Always(s, m_status) == TRUE

\* The test  if (s <= m_status)  of ReleaseVersion::updateUrl
StatusAccepted(s, m_status) == s <= m_status

\* Mutant: the release date is stored before the status is compared.
VersionUpdateUrl_DateFirst(ver, rec) ==
    LET s        == StatusFromText(rec.status)
        dateCh   == ver.releaseDate # rec.releaseDate /\ IsValidDate(rec.releaseDate)
        ver1     == [ver EXCEPT !.releaseDate = IF dateCh THEN rec.releaseDate ELSE @]
        arch     == fromAbbreviation(rec.architecture)
        found    == FindVariant(ver1.variants, arch, rec.board)
        upd      == VariantUpdateUrl(ver1.variants[found], rec.url, rec.sha256, rec.size)
        order    == InsertOrder(ver1.variants, arch)
    IN  IF ~StatusAccepted(s, ver.status)
        THEN [version |-> ver1, ret |-> FALSE, signals |-> <<>>]
        ELSE IF found # 0
        THEN [version |-> [ver1 EXCEPT !.status = s, !.variants[found] = upd.variant],
              ret     |-> upd.ret,
              signals |-> <<"statusChanged">> \o upd.signals]
        ELSE [version |-> [ver1 EXCEPT !.status = s, !.variants =
                              ListInsert(@, order,
                                  NewVariant(rec.url, rec.sha256, rec.md5, rec.size,
                                             arch, rec.imageType, rec.board))],
              ret     |-> TRUE,
              signals |-> <<"statusChanged">>]

\* ReleaseVersion::updateUrl: the updated version, the value returned and the
\* signals emitted.
VersionUpdateUrl(ver, rec) ==
    LET s        == StatusFromText(rec.status)
        accepted == StatusAccepted(s, ver.status)
        dateCh   == ver.releaseDate # rec.releaseDate /\ IsValidDate(rec.releaseDate)
        sig1     == <<"statusChanged">>
                    \o (IF s = FINAL THEN <<"prereleaseChanged">> ELSE <<>>)
                    \o (IF dateCh THEN <<"releaseDateChanged">> ELSE <<>>)
        ver1     == [ver EXCEPT !.status = s,
                                !.releaseDate = IF dateCh THEN rec.releaseDate ELSE @]
        arch     == fromAbbreviation(rec.architecture)
        found    == FindVariant(ver1.variants, arch, rec.board)
        upd      == VariantUpdateUrl(ver1.variants[found], rec.url, rec.sha256, rec.size)
        order    == InsertOrder(ver1.variants, arch)
    IN  IF ~accepted
        THEN [version |-> ver, ret |-> FALSE, signals |-> <<>>]
        ELSE IF found # 0
        THEN [version |-> [ver1 EXCEPT !.variants[found] = upd.variant],
              ret     |-> upd.ret,
              signals |-> sig1 \o upd.signals]
        ELSE [version |-> [ver1 EXCEPT !.variants =
                              ListInsert(@, order,
                                  NewVariant(rec.url, rec.sha256, rec.md5, rec.size,
                                             arch, rec.imageType, rec.board))],
              ret     |-> TRUE,
              signals |-> sig1]

---------------------------------------------------------------------------
(* Release                                                                 *)

S_custom == <<"c", "u", "s", "t", "o", "m">>

\* Release::Release
NewRelease(name, display_name) ==
    [ name            |-> name,
      displayName     |-> display_name,
      versions        |-> <<>>,
      selectedVersion |-> 0 ]

\* Release::isLocal
isLocal(r) == r.name = S_custom

\* Release::selectedVersion: 1-based position in versions, 0 for nullptr
selectedVersion(r) ==
    IF r.selectedVersion >= 0 /\ r.selectedVersion < Len(r.versions)
    THEN r.selectedVersion + 1
    ELSE 0

\* Release::setSelectedVersionIndex
setSelectedVersionIndex(r, o) ==
    IF /\ r.selectedVersion # o
       /\ r.selectedVersion >= 0
       /\ r.selectedVersion < Len(r.versions)
    THEN [r EXCEPT !.selectedVersion = o]
    ELSE r

\* Mutant: the comparison is reversed, version->number() < m_versions[i]->number().
AddVersionIndex_Reversed(versions, number) ==
    IF \E i \in 1..Len(versions) : StrLess(number, versions[i].number)
    THEN (CHOOSE i \in 1..Len(versions) :
              /\ StrLess(number, versions[i].number)
              /\ \A k \in 1..(i - 1) : ~StrLess(number, versions[k].number)) - 1
    ELSE Len(versions)

\* Loop of Release::addVersion: the 0-based position i of the first version
\* with m_versions[i]->number() < number, or the list length when the loop
\* falls through to the append.
AddVersionIndex(versions, number) ==
    IF \E i \in 1..Len(versions) : StrLess(versions[i].number, number)
    THEN (CHOOSE i \in 1..Len(versions) :
              /\ StrLess(versions[i].number, number)
              /\ \A k \in 1..(i - 1) : ~StrLess(versions[k].number, number)) - 1
    ELSE Len(versions)

\* Mutant: the insertion does not move m_selectedVersion.
addVersion_IndexNotMoved(r, version) ==
    [r EXCEPT !.versions =
        ListInsert(@, AddVersionIndex(r.versions, version.number), version)]

\* Mutant: m_selectedVersion moves only for an insertion strictly before it.
addVersion_StrictlyBefore(r, version) ==
    LET i == AddVersionIndex(r.versions, version.number)
    IN  IF i < Len(r.versions)
        THEN [r EXCEPT !.versions = ListInsert(@, i, version),
                       !.selectedVersion =
                           IF version.status # FINAL /\ r.selectedVersion > i
                           THEN @ + 1 ELSE @]
        ELSE [r EXCEPT !.versions = Append(@, version)]

\* Release::addVersion
addVersion(r, version) ==
    LET i == AddVersionIndex(r.versions, version.number)
    IN  IF i < Len(r.versions)
        THEN [r EXCEPT !.versions = ListInsert(@, i, version),
                       !.selectedVersion =
                           IF version.status # FINAL /\ r.selectedVersion >= i
                           THEN @ + 1 ELSE @]
        ELSE [r EXCEPT !.versions = Append(@, version)]

addVersionSignals == <<"versionsChanged", "selectedVersionChanged">>

\* Release::removeVersion; the version pointer is its 1-based position in
\* m_versions, 0 for nullptr.
removeVersion(r, version) ==
    LET idx == version - 1
    IN  IF version = 0 \/ idx < 0
        THEN r
        ELSE [r EXCEPT !.selectedVersion = IF @ = idx THEN 0 ELSE @,
                       !.versions = ListRemoveAt(@, idx)]

removeVersionSignals(r, version) ==
    IF version = 0 THEN <<>>
    ELSE (IF r.selectedVersion = version - 1 THEN <<"selectedVersionChanged">> ELSE <<>>)
         \o <<"versionsChanged">>

\* The eviction scan of Release::updateUrl, from position k on:
\*   QString min = "0"; ReleaseVersion *oldVer = nullptr;
\*   for (auto i : m_versions) if (i->number() < min) { min = ...; oldVer = i; }
RECURSIVE ScanOldVer(_, _, _, _)
ScanOldVer(versions, k, min, oldVer) ==
    IF k > Len(versions) THEN oldVer
    ELSE IF StrLess(versions[k].number, min)
         THEN ScanOldVer(versions, k + 1, versions[k].number, k)
         ELSE ScanOldVer(versions, k + 1, min, oldVer)

\* Number of FINAL versions (the counter finalVersions after a full first loop)
CountFinal(versions) ==
    Cardinality({i \in 1..Len(versions) : versions[i].status = FINAL})

\* 1-based position of the first version with this number, 0 when none
FindVersion(versions, number) ==
    IF \E i \in 1..Len(versions) : versions[i].number = number
    THEN CHOOSE i \in 1..Len(versions) :
             /\ versions[i].number = number
             /\ \A k \in 1..(i - 1) : versions[k].number # number
    ELSE 0

\* Release::updateUrl: the updated release, the value returned and the
\* signals emitted.
ReleaseUpdateUrl(r, rec) ==
    LET found   == FindVersion(r.versions, rec.version)
        upd     == VersionUpdateUrl(r.versions[found], rec)
        s       == StatusFromText(rec.status)
        variant == NewVariant(rec.url, rec.sha256, rec.md5, rec.size,
                              fromAbbreviation(rec.architecture), rec.imageType,
                              rec.board)
        ver0    == NewVersion(rec.version, s, rec.releaseDate)
        ver     == addVariant(ver0, variant)
        r1      == addVersion(r, ver)
        finalVersions == CountFinal(r.versions) + (IF ver.status = FINAL THEN 1 ELSE 0)
        oldVer  == ScanOldVer(r1.versions, 1, <<"0">>, 0)
    IN  IF found # 0
        THEN [release |-> [r EXCEPT !.versions[found] = upd.version],
              ret     |-> upd.ret,
              signals |-> upd.signals]
        ELSE IF finalVersions > 2
        THEN [release |-> removeVersion(r1, oldVer),
              ret     |-> TRUE,
              signals |-> NewVersionSignals(s) \o addVariantSignals(ver0)
                          \o addVersionSignals \o removeVersionSignals(r1, oldVer)]
        ELSE [release |-> r1,
              ret     |-> TRUE,
              signals |-> NewVersionSignals(s) \o addVariantSignals(ver0)
                          \o addVersionSignals]

---------------------------------------------------------------------------
(* ReleaseListModel, ReleaseManager                                        *)

FRONTPAGE_ROW_COUNT == 3

S_alt_workstation ==
    <<"a", "l", "t", "-", "w", "o", "r", "k", "s", "t", "a", "t", "i", "o", "n">>
S_alt_server == <<"a", "l", "t", "-", "s", "e", "r", "v", "e", "r">>
S_UNKNOWN_BOARD ==
    <<"U", "N", "K", "N", "O", "W", "N", " ", "B", "O", "A", "R", "D">>

D_Workstation == <<"W", "o", "r", "k", "s", "t", "a", "t", "i", "o", "n">>
D_Server == <<"S", "e", "r", "v", "e", "r">>
D_Custom_image == <<"C", "u", "s", "t", "o", "m", " ", "i", "m", "a", "g", "e">>

\* One member of a sections file: its "code" and its "name_en".
Member(code, name) == [code |-> code, name |-> name]

\* The members of the sections files, in file order.
SectionMembers ==
    << Member(S_alt_server, D_Server), Member(S_alt_workstation, D_Workstation) >>

\* Loop of ReleaseListModel::ReleaseListModel over the section members from
\* position k on: workstation goes first, server second, the rest is appended.
RECURSIVE LoadSections(_, _, _)
LoadSections(members, k, list) ==
    IF k > Len(members) THEN list
    ELSE LET name  == members[k].code
             index == IF name = S_alt_workstation THEN 0
                      ELSE IF name = S_alt_server THEN 1
                      ELSE Len(list)
         IN  LoadSections(members, k + 1, ListInsert(list, index, NewRelease(name, members[k].name)))

\* The custom release with its version and variant, as the constructor builds
\* it: new ReleaseVersion(customRelease, 0) has the null QString as number.
CustomRelease ==
    LET customVersion == NewVersion(<<>>, FINAL, NullDate)
        customVariant == NewVariant(<<>>, <<>>, <<>>, 0, ARCH_UNKNOWN, "ISO",
                                    S_UNKNOWN_BOARD)
    IN  addVersion(NewRelease(S_custom, D_Custom_image), addVariant(customVersion, customVariant))

\* ReleaseListModel::ReleaseListModel
SeedCatalog(members) ==
    ListInsert(LoadSections(members, 1, <<>>), FRONTPAGE_ROW_COUNT - 1, CustomRelease)

\* Loop of ReleaseManager::updateUrl: 1-based position of the first release
\* with r->name().toLower().contains(name), 0 when there is none.
FindRelease(rels, name) ==
    IF \E i \in 1..Len(rels) : Contains(ToLower(rels[i].name), name)
    THEN CHOOSE i \in 1..Len(rels) :
             /\ Contains(ToLower(rels[i].name), name)
             /\ \A k \in 1..(i - 1) : ~Contains(ToLower(rels[k].name), name)
    ELSE 0

\* ReleaseManager::selected: 1-based position in the catalog, 0 for nullptr
selected(rels, index) ==
    IF index >= 0 /\ index < Len(rels) THEN index + 1 ELSE 0

\* Mutant: the image type is not examined.
ManagerUpdateUrl_TypeNotChecked(rels, rec) ==
    LET i   == FindRelease(rels, rec.name)
        upd == ReleaseUpdateUrl(rels[i], rec)
    IN  IF ~isKnown(rec.architecture) \/ i = 0
        THEN [releases |-> rels, ret |-> FALSE, signals |-> <<>>]
        ELSE [releases |-> [rels EXCEPT ![i] = upd.release],
              ret      |-> upd.ret,
              signals  |-> upd.signals]

\* Mutant: a record whose name matches no release gets a release of its own.
ManagerUpdateUrl_CreatesRelease(rels, rec) ==
    LET i   == FindRelease(rels, rec.name)
        upd == ReleaseUpdateUrl(rels[i], rec)
    IN  IF ~isKnown(rec.architecture) \/ rec.imageType = "UNKNOWN"
        THEN [releases |-> rels, ret |-> FALSE, signals |-> <<>>]
        ELSE IF i = 0
        THEN [releases |-> Append(rels, NewRelease(rec.name, rec.name)), ret |-> TRUE, signals |-> <<>>]
        ELSE [releases |-> [rels EXCEPT ![i] = upd.release],
              ret      |-> upd.ret,
              signals  |-> upd.signals]

\* ReleaseManager::updateUrl: the updated catalog, the value returned and the
\* signals emitted.
ManagerUpdateUrl(rels, rec) ==
    LET i   == FindRelease(rels, rec.name)
        upd == ReleaseUpdateUrl(rels[i], rec)
    IN  IF ~isKnown(rec.architecture) \/ rec.imageType = "UNKNOWN" \/ i = 0
        THEN [releases |-> rels, ret |-> FALSE, signals |-> <<>>]
        ELSE [releases |-> [rels EXCEPT ![i] = upd.release],
              ret      |-> upd.ret,
              signals  |-> upd.signals]

---------------------------------------------------------------------------
(* ReleaseImageType, local files                                           *)

\* ReleaseImageType::Id in declaration order, without UNKNOWN and COUNT, each
\* with the list ReleaseImageType::abbreviation returns for it.
ImageTypeAbbreviations ==
    << [id |-> "ISO",          abbreviation |-> << <<"i", "s", "o">>, <<"d", "v", "d">> >>],
       [id |-> "TAR",          abbreviation |-> << <<"t", "a", "r">> >>],
       [id |-> "TAR_GZ",       abbreviation |-> << <<"t", "g", "z">>,
                                                   <<"t", "a", "r", ".", "g", "z">> >>],
       [id |-> "TAR_XZ",       abbreviation |-> << <<"a", "r", "c", "h", "i", "v", "e">>,
                                                   <<"t", "a", "r", ".", "x", "z">> >>],
       [id |-> "IMG",          abbreviation |-> << <<"i", "m", "g">> >>],
       [id |-> "IMG_GZ",       abbreviation |-> << <<"i", "g", "z">>,
                                                   <<"i", "m", "g", ".", "g", "z">> >>],
       [id |-> "IMG_XZ",       abbreviation |-> << <<"i", "x", "z">>,
                                                   <<"i", "m", "g", ".", "x", "z">> >>],
       [id |-> "RECOVERY_TAR", abbreviation |-> << <<"t", "r", "c">>,
                                                   <<"r", "e", "c", "o", "v", "e", "r", "y",
                                                     ".", "t", "a", "r">> >>] >>

\* QString::endsWith(suffix, Qt::CaseInsensitive)
EndsWithIgnoreCase(s, suffix) ==
    /\ Len(suffix) <= Len(s)
    /\ EqualsIgnoreCase(SubSeq(s, Len(s) - Len(suffix) + 1, Len(s)), suffix)

\* The type at 1-based position i matches the file name by one of its suffixes.
TypeMatches(i, filename) ==
    \E a \in 1..Len(ImageTypeAbbreviations[i].abbreviation) :
        EndsWithIgnoreCase(filename, ImageTypeAbbreviations[i].abbreviation[a])

\* ReleaseImageType::fromFilename: the first matching type, else UNKNOWN
ImageTypeFromFilename(filename) ==
    IF \E i \in 1..Len(ImageTypeAbbreviations) : TypeMatches(i, filename)
    THEN ImageTypeAbbreviations[
             CHOOSE i \in 1..Len(ImageTypeAbbreviations) :
                 /\ TypeMatches(i, filename)
                 /\ \A k \in 1..(i - 1) : ~TypeMatches(k, filename)].id
    ELSE "UNKNOWN"

S_file_scheme == <<"f", "i", "l", "e", ":", "/", "/">>

\* QUrl(path).toLocalFile(): the path of a file: URL without host, the empty
\* string for every other URL.
ToLocalFile(path) ==
    IF Len(path) >= Len(S_file_scheme)
       /\ SubSeq(path, 1, Len(S_file_scheme)) = S_file_scheme
    THEN SubSeq(path, Len(S_file_scheme) + 1, Len(path))
    ELSE <<>>

F_a_iso == <<"/", "a", ".", "i", "s", "o">>
F_b_img == <<"/", "b", ".", "i", "m", "g">>

\* The files of the user's drives that QFileInfo finds, with their sizes.
Files == { [path |-> F_a_iso, size |-> 700], [path |-> F_b_img, size |-> 0] }

\* QFileInfo::exists
FileExists(file) == \E f \in Files : f.path = file

\* QFileInfo::size
FileSize(file) == (CHOOSE f \in Files : f.path = file).size

\* ReleaseVariant::ReleaseVariant(parent, file, size)
NewLocalVariant(file, size) ==
    [ NewVariant(<<>>, <<>>, <<>>, size, X86_64, ImageTypeFromFilename(file),
                 S_UNKNOWN_BOARD)
      EXCEPT !.image = file, !.status = "READY" ]

\* ReleaseVersion::ReleaseVersion(parent, file, size): m_number, m_status and
\* m_releaseDate keep their default initialisers.
NewLocalVersion(file, size) ==
    [ NewVersion(<<"0">>, FINAL, NullDate)
      EXCEPT !.variants = << NewLocalVariant(file, size) >> ]

\* Release::setLocalFile
setLocalFile(r, path) ==
    LET file == ToLocalFile(path)
    IN  IF ~FileExists(file)
        THEN r
        ELSE [r EXCEPT !.versions =
                 Append(IF Len(@) = 1 THEN <<>> ELSE @,
                        NewLocalVersion(file, FileSize(file)))]

---------------------------------------------------------------------------
(* ReleaseVariant: transfer status                                         *)

\* ReleaseVariant::setStatus
setStatus(v, s) == [v EXCEPT !.status = s]

\* ReleaseVariant::setErrorString
setErrorString(v, o) == [v EXCEPT !.error = o]

\* ReleaseVariant::progress: the Progress object <<value, to>> is created on
\* the first call, new Progress(this, 0.0, size()); <<>> is the null pointer.
progress(v) ==
    IF v.progress = <<>> THEN [v EXCEPT !.progress = <<0, v.size>>] ELSE v

\* ReleaseVariant::resetStatus
resetStatus(v) ==
    LET v1 == IF ~IsEmpty(v.image)
              THEN setStatus(v, "READY")
              ELSE [setStatus(v, "PREPARING")
                    EXCEPT !.progress = IF @ # <<>> THEN <<0, @[2]>> ELSE @]
    IN  setErrorString(v1, <<>>)

\* ReleaseVariant::onDownloadError
VariantOnDownloadError(v, message) ==
    setStatus(setErrorString(v, message), "FAILED_DOWNLOAD")

\* ReleaseManager::variant: <<release, version, variant>> as 1-based
\* positions, <<0, 0, 0>> for nullptr.
variant(rels, index) ==
    LET i == selected(rels, index)
        j == IF i = 0 THEN 0 ELSE selectedVersion(rels[i])
        k == IF j = 0 THEN 0 ELSE selectedVariant(rels[i].versions[j])
    IN  IF k = 0 THEN <<0, 0, 0>> ELSE <<i, j, k>>

---------------------------------------------------------------------------
(* ReleaseManager: the filtered view                                       *)

\* QString::contains(str, Qt::CaseInsensitive)
ContainsCaseInsensitive(hay, needle) == Contains(ToLower(hay), ToLower(needle))

\* The loops of ReleaseManager::filterAcceptsRow that compute containsArch
containsArch(r, filterArchitecture) ==
    \E j \in 1..Len(r.versions) :
        \E k \in 1..Len(r.versions[j].variants) :
            r.versions[j].variants[k].arch = filterArchitecture

\* Mutant: the local release is filtered like every other release.
filterAcceptsRow_LocalFiltered(rels, source_row, frontPage, filterText, filterArchitecture) ==
    IF frontPage
    THEN source_row < FRONTPAGE_ROW_COUNT
    ELSE LET r == rels[source_row + 1]
         IN  containsArch(r, filterArchitecture)
             /\ ContainsCaseInsensitive(r.displayName, filterText)

\* ReleaseManager::filterAcceptsRow for the 0-based row source_row
filterAcceptsRow(rels, source_row, frontPage, filterText, filterArchitecture) ==
    IF frontPage
    THEN source_row < FRONTPAGE_ROW_COUNT
    ELSE LET r == rels[source_row + 1]
         IN  isLocal(r)
             \/ ( containsArch(r, filterArchitecture)
                  /\ ContainsCaseInsensitive(r.displayName, filterText) )

\* QSortFilterProxyModel::invalidateFilter: the source rows the proxy shows
\* after it has asked filterAcceptsRow for every row
invalidateFilter(rels, frontPage, filterText, filterArchitecture) ==
    { row \in 0..(Len(rels) - 1) : filterAcceptsRow(rels, row, frontPage, filterText, filterArchitecture) }

\* Inner loop of ReleaseManager::setFilterArchitecture for one version: the
\* first variant of architecture o becomes the selected one.
SelectArchitecture(ver, o) ==
    IF \E k \in 1..Len(ver.variants) : ver.variants[k].arch = o
    THEN setSelectedVariantIndex(ver,
             (CHOOSE k \in 1..Len(ver.variants) :
                  /\ ver.variants[k].arch = o
                  /\ \A l \in 1..(k - 1) : ver.variants[l].arch # o) - 1)
    ELSE ver

\* The loops of ReleaseManager::setFilterArchitecture over all releases
SelectArchitectureInAll(rels, o) ==
    [i \in 1..Len(rels) |->
        [rels[i] EXCEPT !.versions =
            [j \in 1..Len(rels[i].versions) |->
                SelectArchitecture(rels[i].versions[j], o)]]]

\* The test of ReleaseManager::setFilterArchitecture
FilterArchitectureAccepted(filterArchitecture, o) ==
    /\ filterArchitecture # o
    /\ filterArchitecture >= 0
    /\ filterArchitecture < _ARCHCOUNT

---------------------------------------------------------------------------
(* Update records: the arguments of one ReleaseManager::updateUrl call     *)

S_alt    == <<"a", "l", "t">>
S_server == <<"s", "e", "r", "v", "e", "r">>
S_SERVER == <<"S", "E", "R", "V", "E", "R">>
S_kde    == <<"k", "d", "e">>

Keys == {S_alt, S_server, S_SERVER, S_custom, S_kde}

VersionNumbers == {<<>>, <<"9">>, <<"3", "9">>, <<"4", "0">>, <<"4", "1">>}

S_final == <<"0">>

StatusTexts == {S_alpha, S_beta, S_final}

Dates == {NullDate, "2021-06-01"}

A_x86_64 == <<"x", "8", "6", "-", "6", "4">>
A_x86    == <<"x", "8", "6">>
A_i386   == <<"i", "3", "8", "6">>
A_bogus  == <<"b", "o", "g", "u", "s">>

ArchAbbrevs == {A_x86_64, A_x86, A_i386, A_bogus}

ImageTypes == {"ISO", "UNKNOWN"}

S_PC   == <<"P", "C">>
S_rpi4 == <<"r", "p", "i", "4">>

Boards == {S_PC, S_rpi4}

U_a == <<"a", ".", "i", "s", "o">>
U_b == <<"b", ".", "i", "s", "o">>

Urls == {<<>>, U_a, U_b}

Hashes == {<<>>, <<"1", "f">>}

Md5s == {<<>>, <<"d", "4">>}

Sizes == {0, 700}

Rec(name, version, status, releaseDate, architecture, imageType, board, url, sha256, md5, size) ==
    [ name |-> name, version |-> version, status |-> status,
      releaseDate |-> releaseDate, architecture |-> architecture,
      imageType |-> imageType, board |-> board, url |-> url,
      sha256 |-> sha256, md5 |-> md5, size |-> size ]

\* Records that vary the version number and the status text.
VersionRecords ==
    { Rec(S_alt, v, s, NullDate, A_x86_64, "ISO", S_PC, U_a, <<>>, <<>>, 0) :
        v \in VersionNumbers, s \in StatusTexts }

\* Records that vary the release date and the status text of version "40".
DateRecords ==
    { Rec(S_alt, <<"4", "0">>, s, d, A_x86_64, "ISO", S_PC, U_a, <<>>, <<>>, 0) :
        s \in StatusTexts, d \in Dates \ {NullDate} }

\* Records that vary the architecture, the image type and the board.
ArchRecords ==
    { Rec(S_alt, <<"4", "0">>, S_final, NullDate, a, "ISO", b, U_a, <<>>, <<>>, 0) :
        a \in ArchAbbrevs, b \in Boards }
    \cup
    { Rec(S_alt, <<"4", "0">>, S_final, NullDate, A_x86_64, ty, S_PC, U_a, <<>>, <<>>, 0) :
        ty \in ImageTypes }

\* Records that vary url, sha256, md5 and size of one variant.
FieldRecords ==
    { Rec(S_alt, <<"4", "0">>, S_final, NullDate, A_x86_64, "ISO", S_PC, u, h, <<>>, z) :
        u \in Urls, h \in Hashes, z \in Sizes }
    \cup
    { Rec(S_alt, <<"4", "0">>, S_final, NullDate, A_x86_64, "ISO", S_PC, U_a, <<>>, m, 0) :
        m \in Md5s }

\* Records that vary the release match key.
KeyRecords ==
    { Rec(k, <<"4", "0">>, s, NullDate, A_x86_64, "ISO", S_PC, U_a, <<>>, <<>>, 0) :
        k \in Keys, s \in {S_final, S_beta} }

Records ==
    VersionRecords \cup DateRecords \cup ArchRecords \cup FieldRecords \cup KeyRecords

\* Records for one variant of version "9" and for the variant that
\* Release::setLocalFile creates, differing in image type, url, sha256, md5 and size.
TransferRecords ==
    { Rec(S_alt, <<"9">>, S_final, NullDate, A_x86_64, "ISO", S_PC, U_a, <<>>, <<"d", "4">>, 0),
      Rec(S_alt, <<"9">>, S_final, NullDate, A_x86_64, "IMG", S_PC, U_b, <<"1", "f">>, <<>>, 700),
      Rec(S_custom, <<"0">>, S_final, NullDate, A_x86_64, "ISO", S_UNKNOWN_BOARD, U_a, <<>>, <<>>, 0) }

\* Arguments of ReleaseVariant::setStatus
StatusArgs == {"WRITING"}

E_failed == <<"f", "a", "i", "l", "e", "d">>

\* Arguments of ReleaseVariant::setErrorString and ReleaseVariant::onDownloadError
ErrorArgs == {E_failed}

\* Arguments of Release::setLocalFile: the URLs of two files that exist, of
\* one that does not, and a path without the file: scheme.
LocalPaths ==
    { S_file_scheme \o F_a_iso, S_file_scheme \o F_b_img,
      S_file_scheme \o <<"/", "n", ".", "i", "s", "o">>, F_a_iso }

A_aarch64 == <<"a", "a", "r", "c", "h", "6", "4">>

\* Records that give the two releases of the sections files variants of two
\* architectures.
ViewRecords ==
    { Rec(k, <<"9">>, S_final, NullDate, a, "ISO", S_PC, U_a, <<>>, <<>>, 0) :
        k \in {S_alt, S_server}, a \in {A_x86_64, A_aarch64} }

T_SERV == <<"S", "E", "R", "V">>
T_x == <<"x">>

\* Arguments of ReleaseManager::setFilterText: the empty text, part of one
\* display name in another letter case, and a text in no display name.
TextFilters == {<<>>, T_SERV, T_x}

\* Arguments of ReleaseManager::setFilterArchitecture: x86-64, AArch64 and one
\* value out of range on either side.
FilterArchitectureArgs == {-1, X86_64, fromAbbreviation(A_aarch64), _ARCHCOUNT}

S_alt_kworkstation == <<"a", "l", "t", "-", "k", "w", "o", "r", "k", "s", "t", "a", "t", "i", "o", "n">>
S_alt_education == <<"a", "l", "t", "-", "e", "d", "u", "c", "a", "t", "i", "o", "n">>
D_Workstation_K == <<"W", "o", "r", "k", "s", "t", "a", "t", "i", "o", "n", " ", "K">>
D_Education == <<"E", "d", "u", "c", "a", "t", "i", "o", "n">>

\* Members of the sections files when they list two releases besides
\* alt-workstation and alt-server.
SeedMembers ==
    << Member(S_alt_workstation, D_Workstation), Member(S_alt_server, D_Server),
       Member(S_alt_kworkstation, D_Workstation_K), Member(S_alt_education, D_Education) >>

\* Every order in which the sections files can list these members
SectionOrders ==
    { [k \in 1..Len(SeedMembers) |-> SeedMembers[p[k]]] :
        p \in { q \in [1..Len(SeedMembers) -> 1..Len(SeedMembers)] :
                  \A a, b \in 1..Len(SeedMembers) : a # b => q[a] # q[b] } }

U_a_sp == U_a \o <<" ">>
H_1f == <<"1", "f">>
H_1f_sp == <<" ">> \o H_1f

\* Records for the variants of one version that leave fields out, repeat the
\* stored values with white space around them, or bring values.
EraseRecords ==
    { Rec(S_alt, <<"4", "0">>, S_final, d, a, "ISO", S_PC, u, h, <<>>, z) :
        d \in Dates, a \in {A_x86_64, A_aarch64}, u \in {<<>>, U_a, U_a_sp},
        h \in {<<>>, H_1f, H_1f_sp}, z \in Sizes }

\* Records with a status text below FINAL that bring a date, a url and an
\* architecture for two version numbers.
RegressRecords ==
    { Rec(S_alt, v, s, d, a, "ISO", S_PC, u, <<>>, <<>>, 0) :
        v \in {<<"4", "0">>, <<"4", "1">>}, s \in {S_alpha, S_beta}, d \in Dates,
        a \in {A_x86_64, A_aarch64}, u \in {U_a, U_b} }

---------------------------------------------------------------------------
(* ReleaseManager: ingestion of the release image files                    *)

\* getReleaseImagesFiles(): the entries of :/images, in directory order
releaseImagesList == <<"a.yml", "b.yml", "c.yml">>

\* QString::replace(before, after): every occurrence, scanned left to right
RECURSIVE Replace(_, _, _)
Replace(s, before, after) ==
    IF Len(s) < Len(before) THEN s
    ELSE IF SubSeq(s, 1, Len(before)) = before
         THEN after \o Replace(SubSeq(s, Len(before) + 1, Len(s)), before, after)
         ELSE <<s[1]>> \o Replace(Tail(s), before, after)

E_colon == <<"&", "c", "o", "l", "o", "n", ";">>
E_nbsp == <<"&", "n", "b", "s", "p", ";">>

\* ymlToQString: the value with the character entities and newlines replaced
ymlToQString(yml_value) == Replace(Replace(Replace(yml_value, E_colon, <<":">>), E_nbsp, <<" ">>), <<"\n">>, <<" ">>)

\* ReleaseArchitecture::fromFilename: the first entry of m_all one of whose
\* abbreviations occurs in the file name, else nullptr.
ArchInFilename(i, filename) ==
    \E j \in 1..Len(m_all[i + 1].abbreviation) :
        ContainsCaseInsensitive(filename, m_all[i + 1].abbreviation[j])

fromFilename(filename) ==
    IF \E i \in 0..(_ARCHCOUNT - 1) : ArchInFilename(i, filename)
    THEN CHOOSE i \in 0..(_ARCHCOUNT - 1) :
             /\ ArchInFilename(i, filename)
             /\ \A k \in 0..(i - 1) : ~ArchInFilename(k, filename)
    ELSE nullptr

S_unknown == <<"u", "n", "k", "n", "o", "w", "n">>

\* One element of file["entries"]: the keys link and solution, and the keys
\* arch, board and md5 that a document may leave out (<<>> when left out,
\* <<value>> when given).
Entry(link, solution, arch, board, md5) == [link |-> link, solution |-> solution, arch |-> arch, board |-> board, md5 |-> md5]

\* Mutant: every entry is handed on with the status "beta".
EntryRecord_Beta(e) ==
    LET url  == ymlToQString(e.link)
        name == ymlToQString(e.solution)
    IN  Rec(name, <<"9">>, S_beta, NullDate, A_x86_64, ImageTypeFromFilename(url), S_PC, url, <<>>, <<>>, 0)

\* The body of the loop of ReleaseManager::loadReleaseImages up to the call of
\* updateUrl: the arguments computed from one entry.
EntryRecord(e) ==
    LET url  == ymlToQString(e.link)
        name == ymlToQString(e.solution)
        fileNameArch == fromFilename(url)
        arch == IF Len(e.arch) > 0 THEN ymlToQString(e.arch[1])
                ELSE IF fileNameArch # nullptr
                     THEN m_all[fileNameArch + 1].abbreviation[1]
                     ELSE S_unknown
        board == IF Len(e.board) > 0 THEN ymlToQString(e.board[1]) ELSE S_PC
        md5 == IF Len(e.md5) > 0 THEN ymlToQString(e.md5[1]) ELSE <<>>
    IN  Rec(name, <<"9">>, <<"0">>, NullDate, arch, ImageTypeFromFilename(url), board, url, <<>>, md5, 0)

\* ReleaseManager::loadReleaseImages from entry k of the document on
RECURSIVE loadEntries(_, _, _)
loadEntries(rels, entries, k) ==
    IF k > Len(entries) THEN rels
    ELSE LET rec == EntryRecord(entries[k])
         IN  loadEntries(IF ~IsEmpty(rec.name) /\ ~IsEmpty(rec.url) /\ ~IsEmpty(rec.architecture)
                         THEN ManagerUpdateUrl(rels, rec).releases
                         ELSE rels,
                         entries, k + 1)

\* ReleaseManager::loadReleaseImages(fileContents)
loadReleaseImages(rels, fileContents) == loadEntries(rels, fileContents, 1)

\* Mutant: the index stays where it is.
NextSourceIndex_Stays(index) == index

\* Mutant: the index moves on by two.
NextSourceIndex_Skips(index) == index + 2

\* currentDownloadingReleaseIndex++ in ReleaseManager::onStringDownloaded
NextSourceIndex(index) == index + 1

\* A list without its element at position n (one request answered)
Answered(list, n) == SubSeq(list, 1, n - 1) \o SubSeq(list, n + 1, Len(list))

U_aarch64_img == <<"a", "a", "r", "c", "h", "6", "4", ".", "i", "m", "g">>
U_n == <<"n">>
B_nbsp == <<"P", "&", "n", "b", "s", "p", ";", "C">>
M_d4 == <<"d", "4">>

\* The documents the server can answer a page request with: one entry with
\* every key; one entry whose architecture comes from the file name and one
\* that moves the url of a variant; one entry with a character entity in the
\* board and one whose file name names no architecture; one entry for a
\* solution that is not in the sections files.
Docs ==
    { << Entry(U_a, S_alt_workstation, <<A_x86_64>>, <<>>, <<M_d4>>) >>,
      << Entry(U_aarch64_img, S_alt_server, <<>>, <<>>, <<>>),
         Entry(U_b, S_alt_workstation, <<A_x86_64>>, <<>>, <<>>) >>,
      << Entry(U_a, S_alt_server, <<A_x86_64>>, <<B_nbsp>>, <<>>),
         Entry(U_n, S_alt_server, <<>>, <<>>, <<>>) >>,
      << Entry(U_a, S_alt_education, <<A_x86_64>>, <<>>, <<>>) >> }

\* Records merged by direct calls of ReleaseManager::updateUrl between the
\* steps of the ingestion: a key that matches a release and one that matches
\* none, for two version numbers.
IngestRecords ==
    { Rec(k, v, S_final, NullDate, A_x86_64, "ISO", S_PC, U_a, <<>>, <<>>, 0) :
        k \in {S_alt, S_alt_education}, v \in {<<"9">>, <<"4", "0">>} }

\* File names given to ReleaseArchitecture::fromFilename: with one
\* abbreviation, with abbreviations of two architectures, in another letter
\* case, and with no abbreviation.
FilenameArgs ==
    { U_a, U_n, U_aarch64_img,
      <<"x", "8", "6", "-", "6", "4", ".", "i", "s", "o">>,
      <<"X", "8", "6", ".", "I", "S", "O">>,
      <<"a", "a", "r", "c", "h", "6", "4", "-", "i", "5", "8", "6">>,
      <<"E", "2", "K", ".", "i", "m", "g">> }

---------------------------------------------------------------------------
(* ReleaseVariant: download                                                *)

\* 0.0/0.0, the value onFileDownloaded gives the progress while verifying
NaN == -1

\* Progress::setTo, Progress::setValue(value), Progress::setValue(value, to)
ProgressSetTo(p, to) == <<p[1], to>>

ProgressSetValue(p, value) == <<value, p[2]>>

ProgressSetValueTo(p, value, to) == <<value, to>>

S_part == <<".", "p", "a", "r", "t">>
S_dir == <<"/", "d", "/">>

\* QString::endsWith, case sensitive
EndsWith(s, suffix) == Len(s) >= Len(suffix) /\ SubSeq(s, Len(s) - Len(suffix) + 1, Len(s)) = suffix

\* The file DownloadManager::downloadFile keeps for a url in DownloadManager::dir()
DownloadedFile(url) == S_dir \o url

\* What DownloadManager::downloadFile can return for a url: the file when it
\* is there already, else the name of the partial file it starts to write.
DownloadFileResults(url) == {DownloadedFile(url), DownloadedFile(url) \o S_part}

\* Sizes QFile::size reports for a downloaded file
DownloadedSizes == {700}

\* setStatus(s) with the value recorded when statusChanged is emitted:
\* w is a pair <<variant, statuses emitted so far>>
ThenStatus(w, s) == <<setStatus(w[1], s), IF w[1].status # s THEN Append(w[2], s) ELSE w[2]>>

E_corrupted == <<"The downloaded image is corrupted">>
E_not_readable == <<"The downloaded file is not readable.">>
E_rename == <<"Unable to rename the temporary file.">>

\* ReleaseVariant::download when DownloadManager::downloadFile returns ret and
\* QFile::size reports fsize: the variant, the status values in the order
\* statusChanged announced them, and whether m_progress was dereferenced while
\* null (the store is then left out of the variant returned).
download(v, ret, fsize) ==
    IF IsEmpty(v.url) /\ ~IsEmpty(v.image)
    THEN LET w == ThenStatus(<<v, <<>>>>, "READY")
         IN  [variant |-> w[1], statuses |-> w[2], nullDeref |-> FALSE]
    ELSE LET w1 == ThenStatus(<<v, <<>>>>, IF ~IsEmpty(v.image) THEN "READY" ELSE "PREPARING")
             w2 == ThenStatus(<<resetStatus(v), w1[2]>>, "DOWNLOADING")
             deref == v.size # 0 /\ v.progress = <<>>
             v3 == IF v.size # 0 /\ v.progress # <<>>
                   THEN [w2[1] EXCEPT !.progress = ProgressSetTo(@, v.size)]
                   ELSE w2[1]
             v4 == [progress(v3) EXCEPT !.md5sum = TRUE]
         IN  IF ~EndsWith(ret, S_part)
             THEN LET w5 == ThenStatus(<<[v4 EXCEPT !.temporaryImage = <<>>, !.image = ret], w2[2]>>, "READY")
                  IN  [variant |-> [w5[1] EXCEPT !.size = fsize], statuses |-> w5[2], nullDeref |-> deref]
             ELSE [variant |-> [v4 EXCEPT !.temporaryImage = ret, !.transfer = TRUE],
                   statuses |-> w2[2], nullDeref |-> deref]

\* Results of mediaCheckFile
CheckResults == {"ISOMD5SUM_CHECK_PASSED", "ISOMD5SUM_CHECK_FAILED", "ISOMD5SUM_FILE_NOT_FOUND", "ISOMD5SUM_CHECK_NOT_FOUND"}

\* Mutant: the file name is taken as it is.
WithoutPart_Kept(path) == path

\* QString::replace(QRegExp("[.]part$"), "")
WithoutPart(path) == IF EndsWith(path, S_part) THEN SubSeq(path, 1, Len(path) - Len(S_part)) ELSE path

\* Whether mediaCheckFile reads the image through before it returns the
\* result, calling onMediaCheckAdvanced on the way
MediaCheckAdvances(checkResult) == checkResult \in {"ISOMD5SUM_CHECK_PASSED", "ISOMD5SUM_CHECK_FAILED"}

\* ReleaseVariant::onFileDownloaded(path, hash) when mediaCheckFile returns
\* checkResult (having called onMediaCheckAdvanced, last with offset = total
\* = 1, when it read the image through), QFile::rename returns renamed and
\* QFile::size reports fsize.
onFileDownloaded(v, path, hash, checkResult, renamed, fsize) ==
    LET v1 == [v EXCEPT !.temporaryImage = <<>>, !.transfer = FALSE,
                        !.progress = IF @ # <<>> THEN ProgressSetValue(@, v.size) ELSE @]
        w2 == ThenStatus(<<v1, <<>>>>, "DOWNLOAD_VERIFYING")
        deref == v.progress = <<>>
        v3 == IF v.progress # <<>>
              THEN [w2[1] EXCEPT !.progress = ProgressSetValueTo(@, NaN, 1)]
              ELSE w2[1]
        v4 == IF MediaCheckAdvances(checkResult) /\ v.progress # <<>>
              THEN [v3 EXCEPT !.progress = ProgressSetValueTo(@, 1, 1)]
              ELSE v3
        finalFilename == WithoutPart(path)
        Failed(x, message) == ThenStatus(<<setErrorString(x, message), w2[2]>>, "FAILED_DOWNLOAD")
        w == IF ~IsEmpty(v.shaHash) /\ v.shaHash # hash
             THEN Failed(v3, E_corrupted)
             ELSE IF checkResult = "ISOMD5SUM_CHECK_FAILED"
             THEN Failed(v4, E_corrupted)
             ELSE IF checkResult = "ISOMD5SUM_FILE_NOT_FOUND"
             THEN Failed(v4, E_not_readable)
             ELSE IF finalFilename # path /\ ~renamed
             THEN Failed(v4, E_rename)
             ELSE LET w5 == ThenStatus(<<[v4 EXCEPT !.image = finalFilename], w2[2]>>, "READY")
                  IN  <<[w5[1] EXCEPT !.size = fsize], w5[2]>>
    IN  [variant |-> w[1], statuses |-> w[2], nullDeref |-> deref]

\* QString::split(QRegExp("\\s+")): the parts between runs of white space
RECURSIVE SplitSpaces(_)
SplitSpaces(s) ==
    IF \A i \in 1..Len(s) : ~IsSpace(s[i]) THEN <<s>>
    ELSE LET first == CHOOSE i \in 1..Len(s) : IsSpace(s[i]) /\ \A j \in 1..(i - 1) : ~IsSpace(s[j])
             rest  == SubSeq(s, first + 1, Len(s))
             next  == IF \A i \in 1..Len(rest) : IsSpace(rest[i]) THEN Len(rest) + 1
                      ELSE CHOOSE i \in 1..Len(rest) : ~IsSpace(rest[i]) /\ \A j \in 1..(i - 1) : IsSpace(rest[j])
         IN  <<SubSeq(s, 1, first - 1)>> \o SplitSpaces(SubSeq(rest, next, Len(rest)))

\* The loop of ReleaseVariant::onStringDownloaded: the sum that stands before
\* the first element found in the url, <<>> when the loop ends without one
\* (<<sum>> when found).
RECURSIVE FindSum(_, _, _, _)
FindSum(elements, url, i, prev) ==
    IF i > Len(elements) THEN <<>>
    ELSE IF Len(elements[i]) > 0 /\ Contains(url, elements[i]) /\ Len(prev) > 0 THEN <<prev>>
    ELSE FindSum(elements, url, i + 1, elements[i])

\* Mutant: the md5 is written into every entry of the document.
WithMd5_EveryEntry(file, url, md5) ==
    IF file = <<>> THEN file
    ELSE << [k \in 1..Len(file[1]) |-> [file[1][k] EXCEPT !.md5 = <<md5>>]] >>

\* The cached document with the md5 of the entries whose link is the url
\* (an absent cache file stays absent)
WithMd5(file, url, md5) ==
    IF file = <<>> THEN file
    ELSE << [k \in 1..Len(file[1]) |->
               IF ymlToQString(file[1][k].link) = url
               THEN [file[1][k] EXCEPT !.md5 = <<md5>>]
               ELSE file[1][k]] >>

\* ReleaseVariant::onStringDownloaded(text): the variant and the cache files
VariantOnStringDownloaded(v, files, text) ==
    LET sum == FindSum(SplitSpaces(text), v.url, 1, <<>>)
    IN  IF sum = <<>>
        THEN [variant |-> [v EXCEPT !.md5sum = FALSE], cache |-> files]
        ELSE [variant |-> [v EXCEPT !.md5sum = FALSE, !.md5 = sum[1]],
              cache   |-> [i \in DOMAIN files |-> WithMd5(files[i], v.url, sum[1])]]

\* Records for the variant whose image is downloaded: without hash and size,
\* and with a sha256 and a size.
DownloadRecords ==
    { Rec(S_alt, <<"9">>, S_final, NullDate, A_x86_64, "ISO", S_PC, U_a, <<>>, <<>>, 0),
      Rec(S_alt, <<"9">>, S_final, NullDate, A_x86_64, "ISO", S_PC, U_a, H_1f, <<>>, 700) }

\* Hashes DownloadManager computes for a downloaded file
ComputedHashes == {H_1f, <<"0", "0">>}

\* MD5SUM pages: a sum for a.iso, and a page without sums
Md5sumTexts == { <<"d", "4", " ", "a", ".", "i", "s", "o">>, <<>> }

---------------------------------------------------------------------------
(* RestoreJob (src/helper/linux/restorejob.cpp): the helper that restores  *)
(* a drive. job.pc is where work() stands, job.objects what UDisks2 lists  *)
(* (GetManagedObjects), job.keys the objects the loop has still to visit,  *)
(* job.calls the D-Bus calls made so far with their replies, job.exits the *)
(* codes handed to qApp->exit.                                             *)

\* The most objects UDisks2 lists
MaxObjects == 2

\* One managed object: whether it has the interface
\* org.freedesktop.UDisks2.Filesystem, and whether the Drive of its Block
\* interface is the drive of the device being restored
ObjectKinds == [filesystem : BOOLEAN, onDrive : BOOLEAN]

ManagedObjects == UNION { [1..n -> ObjectKinds] : n \in 0..MaxObjects }

\* What a D-Bus call comes back with: a valid reply, the error NoReply, or
\* another error
Replies == {"Valid", "NoReply", "Failed"}

\* QDBusReply::isValid
isValid(reply) == reply = "Valid"

\* Mutant: a reply that is not valid is a failure.
FormatFailed_AnyError(reply) == ~isValid(reply)

\* !reply.isValid() && reply.error().type() != QDBusError::NoReply
FormatFailed(reply) == ~isValid(reply) /\ reply # "NoReply"

\* No helper process
NoRestoreJob == [pc |-> "none", objects |-> <<>>, keys |-> {}, calls |-> <<>>, exits |-> <<>>]

\* RestoreJob::RestoreJob: work() is queued with a single-shot timer
NewRestoreJob(objects) == [pc |-> "timer", objects |-> objects, keys |-> {}, calls |-> <<>>, exits |-> <<>>]

\* A D-Bus call made and its reply
Call(method, target, reply) == [method |-> method, target |-> target, reply |-> reply]

\* qApp->exit(code); return
Exit(j, code) == [j EXCEPT !.exits = Append(@, code), !.pc = "returned"]

\* The variables of the application, which the helper does not touch
appVars == <<sections, releases, m_selectedIndex, viewVars, loaderVars, crashed>>

\* RestoreJob::work up to the loop: GetManagedObjects is called; the loop runs
\* over the objects when the message has exactly one argument
Work ==
    /\ job.pc = "timer"
    /\ \E oneArgument \in BOOLEAN :
           job' = [job EXCEPT !.pc = "objects",
                              !.keys = IF oneArgument THEN DOMAIN job.objects ELSE {},
                              !.calls = Append(@, Call("GetManagedObjects", 0,
                                                       IF oneArgument THEN "Valid" ELSE "Failed"))]
    /\ UNCHANGED appVars

\* One pass of the loop over objects.keys(), in the order the hash gives: a
\* filesystem on the drive is unmounted, whatever the call answers
Unmount ==
    /\ job.pc = "objects"
    /\ \E i \in job.keys, reply \in Replies :
           job' = [job EXCEPT !.keys = @ \ {i},
                              !.calls = IF job.objects[i].filesystem /\ job.objects[i].onDrive
                                        THEN Append(@, Call("Unmount", i, reply))
                                        ELSE @]
    /\ UNCHANGED appVars

\* device.call("Format", "dos", ...) after the loop
Format ==
    /\ job.pc = "objects"
    /\ job.keys = {}
    /\ \E formatReply \in Replies :
           LET j == [job EXCEPT !.calls = Append(@, Call("Format dos", 0, formatReply))]
           IN  job' = IF FormatFailed(formatReply) THEN Exit(j, 1)
                      ELSE [j EXCEPT !.pc = "createPartition"]
    /\ UNCHANGED appVars

\* partitionTable.call("CreatePartition", ...)
CreatePartition ==
    /\ job.pc = "createPartition"
    /\ \E partitionReply \in Replies :
           LET j == [job EXCEPT !.calls = Append(@, Call("CreatePartition", 0, partitionReply))]
           IN  job' = IF ~isValid(partitionReply) THEN Exit(j, 2)
                      ELSE [j EXCEPT !.pc = "formatPartition"]
    /\ UNCHANGED appVars

\* partition.call("Format", "vfat", ...) and the end of work()
FormatPartition ==
    /\ job.pc = "formatPartition"
    /\ \E formatPartitionReply \in Replies :
           LET j == [job EXCEPT !.calls = Append(@, Call("Format vfat", 0, formatPartitionReply))]
           IN  job' = IF FormatFailed(formatPartitionReply) THEN Exit(j, 3) ELSE Exit(j, 0)
    /\ UNCHANGED appVars

---------------------------------------------------------------------------
(* Variant (src/app/variant.cpp): the variant with its ImageDownload       *)
(* Its members are those of ReleaseVariant; m_progress is constructed with *)
(* the variant, as <<current, max>>; transfer tells that an ImageDownload  *)
(* created by download() exists.                                           *)

\* Progress(this) of the constructors of Variant
Variant_progress(v) == IF v.progress = <<>> THEN <<0, 0>> ELSE v.progress

\* Variant::setSize
Variant_setSize(v, value) == [v EXCEPT !.size = value]

\* Variant::resetStatus
Variant_resetStatus(v) ==
    LET v1 == IF ~IsEmpty(v.image)
              THEN [setStatus(v, "READY") EXCEPT !.progress = Variant_progress(v)]
              ELSE [setStatus(v, "PREPARING") EXCEPT !.progress = <<0, 0>>]
    IN  setErrorString(v1, <<>>)

\* Variant::download, when QFile::exists tells already_downloaded for the file
\* of the url in the download directory and QFile::size reports fsize
Variant_download(v, already_downloaded, fsize) ==
    IF IsEmpty(v.url) /\ ~IsEmpty(v.image)
    THEN setStatus(v, "READY")
    ELSE LET v1 == Variant_resetStatus(v)
         IN  IF already_downloaded
             THEN Variant_setSize(setStatus([v1 EXCEPT !.image = DownloadedFile(v.url)], "READY"), fsize)
             ELSE [v1 EXCEPT !.transfer = TRUE, !.cancelled = FALSE]

E_interrupted == <<"Connection was interrupted, attempting to resume">>

\* The lambdas Variant::download connects to the signals started, interrupted,
\* startedMd5Check, progress and progressMaxChanged of the ImageDownload
Variant_onSignal(v, signal, value) ==
    CASE signal = "started"            -> setStatus(setErrorString(v, <<>>), "DOWNLOADING")
      [] signal = "interrupted"        -> setStatus(setErrorString(v, E_interrupted), "DOWNLOAD_RESUMING")
      [] signal = "startedMd5Check"    -> setStatus(setErrorString(v, <<>>), "DOWNLOAD_VERIFYING")
      [] signal = "progress"           -> [v EXCEPT !.progress = <<value, Variant_progress(v)[2]>>]
      [] signal = "progressMaxChanged" -> [v EXCEPT !.progress = <<Variant_progress(v)[1], value>>]

ImageDownloadSignals == {"started", "interrupted", "startedMd5Check", "progress", "progressMaxChanged"}

\* ImageDownload::Result
ImageDownloadResults == {"Success", "DiskError", "Md5CheckFail", "Cancelled"}

\* Variant::cancelDownload: cancelledDownload() reaches ImageDownload::cancel
\* of the download that exists
Variant_cancelDownload(v) == IF v.transfer THEN [v EXCEPT !.cancelled = TRUE] ELSE v

\* Mutant: a cancelled download leaves the variant as a failed one.
Variant_onImageDownloadFinished_CancelFails(v, result, errorString, fsize) ==
    [setStatus(setErrorString(v, errorString), "FAILED_DOWNLOAD") EXCEPT !.transfer = FALSE, !.cancelled = FALSE]

\* Variant::onImageDownloadFinished for the result and the error string of the
\* download, when QFile::size reports fsize; the ImageDownload is gone after it
Variant_onImageDownloadFinished(v, result, errorString, fsize) ==
    LET v1 == [v EXCEPT !.transfer = FALSE, !.cancelled = FALSE]
    IN  CASE result = "Success" ->
                 Variant_setSize(setStatus([v1 EXCEPT !.image = DownloadedFile(v.url)], "READY"), fsize)
          [] result = "DiskError" -> setStatus(setErrorString(v1, errorString), "FAILED_DOWNLOAD")
          [] result = "Md5CheckFail" -> setStatus(setErrorString(v1, E_corrupted), "FAILED_DOWNLOAD")
          [] result = "Cancelled" -> v1

---------------------------------------------------------------------------
(* Bounds                                                                  *)

\* Largest number of versions in one release.
MaxVersions == 3

\* Largest number of variants in one version.
MaxVariants == 3

WithinBounds(rels) ==
    \A i \in 1..Len(rels) :
        /\ Len(rels[i].versions) <= MaxVersions
        /\ \A j \in 1..Len(rels[i].versions) :
               Len(rels[i].versions[j].variants) <= MaxVariants

\* Arguments of the index setters: every valid index and one value out of
\* range on either side.
ReleaseIndexArgs == -1..Len(SectionMembers) + 1

VersionIndexArgs == -1..MaxVersions

VariantIndexArgs == -1..MaxVariants

---------------------------------------------------------------------------
(* Specifications                                                          *)

Init ==
    /\ sections = SectionMembers
    /\ job = NoRestoreJob
    /\ releases = SeedCatalog(sections)
    /\ m_selectedIndex = 0
    /\ m_frontPage = TRUE
    /\ m_filterText = <<>>
    /\ m_filterArchitecture = 0
    /\ proxyRows = invalidateFilter(SeedCatalog(sections), TRUE, <<>>, 0)
    /\ m_beingUpdated = TRUE
    /\ currentDownloadingReleaseIndex = 0
    /\ fetches = <<>>
    /\ timers = 1
    /\ crashed = FALSE
    /\ cache = [i \in 0..(Len(releaseImagesList) - 1) |-> <<>>]

\* ReleaseManager::updateUrl(rec) for a record of the set recs
UpdateUrl(recs) ==
    /\ ~crashed
    /\ \E rec \in recs :
           LET res == ManagerUpdateUrl(releases, rec)
           IN  /\ WithinBounds(res.releases)
               /\ releases' = res.releases
               /\ UNCHANGED <<crashed, sections, job, m_selectedIndex, viewVars, loaderVars>>

\* ReleaseManager::setSelectedIndex(o), when it takes effect
SetSelectedIndex ==
    /\ ~crashed
    /\ \E o \in ReleaseIndexArgs :
           /\ m_selectedIndex # o
           /\ m_selectedIndex' = o
           /\ UNCHANGED <<crashed, sections, job, releases, viewVars, loaderVars>>

\* Release::setSelectedVersionIndex(o) on the release selected in the manager,
\* when it takes effect
SetSelectedVersionIndex ==
    /\ ~crashed
    /\ \E o \in VersionIndexArgs :
           LET i == selected(releases, m_selectedIndex)
           IN  /\ i # 0
               /\ setSelectedVersionIndex(releases[i], o) # releases[i]
               /\ releases' = [releases EXCEPT ![i] = setSelectedVersionIndex(@, o)]
               /\ UNCHANGED <<crashed, sections, job, m_selectedIndex, viewVars, loaderVars>>

\* ReleaseVersion::setSelectedVariantIndex(o) on the selected version of the
\* release selected in the manager, when it takes effect
SetSelectedVariantIndex ==
    /\ ~crashed
    /\ \E o \in VariantIndexArgs :
           LET i == selected(releases, m_selectedIndex)
               j == IF i = 0 THEN 0 ELSE selectedVersion(releases[i])
           IN  /\ i # 0
               /\ j # 0
               /\ setSelectedVariantIndex(releases[i].versions[j], o)
                      # releases[i].versions[j]
               /\ releases' = [releases EXCEPT ![i].versions[j] =
                                  setSelectedVariantIndex(@, o)]
               /\ UNCHANGED <<crashed, sections, job, m_selectedIndex, viewVars, loaderVars>>

\* The variant ReleaseManager::variant returns becomes w.
ChangeVariant(w) ==
    /\ ~crashed
    /\ LET p == variant(releases, m_selectedIndex)
       IN  /\ p[1] # 0
           /\ releases[p[1]].versions[p[2]].variants[p[3]] # w
           /\ releases' = [releases EXCEPT ![p[1]].versions[p[2]].variants[p[3]] = w]
           /\ UNCHANGED <<crashed, sections, job, m_selectedIndex, viewVars, loaderVars>>

\* The variant ReleaseManager::variant returns, when there is one
CurrentVariant ==
    LET p == variant(releases, m_selectedIndex)
    IN  releases[p[1]].versions[p[2]].variants[p[3]]

\* ReleaseVariant::setStatus(s) on the current variant
SetStatus ==
    /\ variant(releases, m_selectedIndex)[1] # 0
    /\ \E s \in StatusArgs : ChangeVariant(setStatus(CurrentVariant, s))

\* ReleaseVariant::setErrorString(o) on the current variant
SetErrorString ==
    /\ variant(releases, m_selectedIndex)[1] # 0
    /\ \E o \in ErrorArgs : ChangeVariant(setErrorString(CurrentVariant, o))

\* ReleaseVariant::onDownloadError(message) on the current variant
OnVariantDownloadError ==
    /\ variant(releases, m_selectedIndex)[1] # 0
    /\ \E message \in ErrorArgs :
           ChangeVariant(VariantOnDownloadError(CurrentVariant, message))

\* ReleaseVariant::resetStatus on the current variant
ResetStatus ==
    /\ variant(releases, m_selectedIndex)[1] # 0
    /\ ChangeVariant(resetStatus(CurrentVariant))

\* ReleaseVariant::progress on the current variant
ProgressAccess ==
    /\ variant(releases, m_selectedIndex)[1] # 0
    /\ ChangeVariant(progress(CurrentVariant))

\* Release::setLocalFile(path) on the selected release when it is the local
\* one, the release the file chooser belongs to; the step is taken when the
\* file exists
SetLocalFile ==
    /\ ~crashed
    /\ \E path \in LocalPaths :
           LET i == selected(releases, m_selectedIndex)
           IN  /\ i # 0
               /\ isLocal(releases[i])
               /\ setLocalFile(releases[i], path) # releases[i]
               /\ WithinBounds([releases EXCEPT ![i] = setLocalFile(@, path)])
               /\ releases' = [releases EXCEPT ![i] = setLocalFile(@, path)]
               /\ UNCHANGED <<crashed, sections, job, m_selectedIndex, viewVars, loaderVars>>

\* ReleaseManager::setFrontPage(o), when it takes effect
SetFrontPage ==
    /\ ~crashed
    /\ \E o \in BOOLEAN :
           /\ m_frontPage # o
           /\ m_frontPage' = o
           /\ proxyRows' = invalidateFilter(releases, o, m_filterText, m_filterArchitecture)
           /\ UNCHANGED <<crashed, sections, job, releases, m_selectedIndex, m_filterText,
                          m_filterArchitecture, loaderVars>>

\* ReleaseManager::setFilterText(o), when it takes effect
SetFilterText ==
    /\ ~crashed
    /\ \E o \in TextFilters :
           /\ m_filterText # o
           /\ m_filterText' = o
           /\ proxyRows' = invalidateFilter(releases, m_frontPage, o, m_filterArchitecture)
           /\ UNCHANGED <<crashed, sections, job, releases, m_selectedIndex, m_frontPage,
                          m_filterArchitecture, loaderVars>>

\* ReleaseManager::setFilterArchitecture(o), when it takes effect
SetFilterArchitecture ==
    /\ ~crashed
    /\ \E o \in FilterArchitectureArgs :
           /\ FilterArchitectureAccepted(m_filterArchitecture, o)
           /\ m_filterArchitecture' = o
           /\ releases' = SelectArchitectureInAll(releases, o)
           /\ proxyRows' = invalidateFilter(releases', m_frontPage, m_filterText, o)
           /\ UNCHANGED <<crashed, sections, job, m_selectedIndex, m_frontPage, m_filterText, loaderVars>>

\* Mutant: the pass goes on from the source that failed.
FetchReleases_Resumes ==
    /\ ~crashed
    /\ /\ timers > 0
       /\ timers' = timers - 1
       /\ m_beingUpdated' = TRUE
       /\ fetches' = Append(fetches, currentDownloadingReleaseIndex)
       /\ UNCHANGED <<crashed, sections, job, releases, m_selectedIndex, viewVars, cache,
                      currentDownloadingReleaseIndex>>

\* ReleaseManager::fetchReleases, called by a single-shot timer
FetchReleases ==
    /\ ~crashed
    /\ /\ timers > 0
       /\ timers' = timers - 1
       /\ m_beingUpdated' = TRUE
       /\ currentDownloadingReleaseIndex' = 0
       /\ fetches' = Append(fetches, 0)
       /\ UNCHANGED <<crashed, sections, job, releases, m_selectedIndex, viewVars, cache>>

\* ReleaseManager::onStringDownloaded(text): the answer to one page request
OnStringDownloaded ==
    /\ ~crashed
    /\ \E n \in 1..Len(fetches), text \in Docs :
           LET index == NextSourceIndex(currentDownloadingReleaseIndex)
           IN  /\ cache' = [cache EXCEPT ![currentDownloadingReleaseIndex] = <<text>>]
               /\ releases' = loadReleaseImages(releases, text)
               /\ WithinBounds(releases')
               /\ IF index < Len(releaseImagesList)
                  THEN /\ currentDownloadingReleaseIndex' = index
                       /\ fetches' = Append(Answered(fetches, n), index)
                       /\ UNCHANGED m_beingUpdated
                  ELSE IF index = Len(releaseImagesList)
                  THEN /\ currentDownloadingReleaseIndex' = 0
                       /\ m_beingUpdated' = FALSE
                       /\ fetches' = Answered(fetches, n)
                  ELSE /\ currentDownloadingReleaseIndex' = index
                       /\ fetches' = Answered(fetches, n)
                       /\ UNCHANGED m_beingUpdated
               /\ UNCHANGED <<crashed, sections, job, m_selectedIndex, viewVars, timers>>

\* Mutant: a failed page request ends the pass.
OnDownloadError_GivesUp ==
    /\ ~crashed
    /\ \E n \in 1..Len(fetches) :
           /\ fetches' = Answered(fetches, n)
           /\ timers' = timers + 1
           /\ m_beingUpdated' = FALSE
           /\ UNCHANGED <<crashed, sections, job, releases, m_selectedIndex, viewVars,
                          currentDownloadingReleaseIndex, cache>>

\* ReleaseManager::onDownloadError(message): one page request failed
OnDownloadError ==
    /\ ~crashed
    /\ \E n \in 1..Len(fetches) :
           /\ fetches' = Answered(fetches, n)
           /\ timers' = timers + 1
           /\ UNCHANGED <<crashed, sections, job, releases, m_selectedIndex, viewVars,
                          m_beingUpdated, currentDownloadingReleaseIndex, cache>>

\* Merging records that differ in version number, status and release date.
UpdateVersions == UpdateUrl(VersionRecords \cup DateRecords)

Next == UpdateVersions \/ SetSelectedVersionIndex

Spec == Init /\ [][Next]_vars

\* Merging records that differ in the variant fields of one version.
UpdateVariants == UpdateUrl(ArchRecords \cup FieldRecords)

NextVariants == UpdateVariants \/ SetSelectedVariantIndex

SpecVariants == Init /\ [][NextVariants]_vars

\* Merging records that differ in the release match key.
UpdateKeys == UpdateUrl(KeyRecords)

NextKeys == UpdateKeys \/ SetSelectedIndex \/ SetSelectedVersionIndex

SpecKeys == Init /\ [][NextKeys]_vars

\* Merging records while the variants carry transfer state.
UpdateTransfers == UpdateUrl(TransferRecords)

NextTransfer ==
    \/ UpdateTransfers
    \/ SetSelectedIndex
    \/ SetLocalFile
    \/ SetStatus
    \/ SetErrorString
    \/ OnVariantDownloadError
    \/ ResetStatus
    \/ ProgressAccess

SpecTransfer == Init /\ [][NextTransfer]_vars

\* Merging records of two architectures while the filters change.
UpdateView == UpdateUrl(ViewRecords)

NextView ==
    \/ UpdateView
    \/ SetFrontPage
    \/ SetFilterText
    \/ SetFilterArchitecture
    \/ SetSelectedVariantIndex

SpecView == Init /\ [][NextView]_vars

\* Merging records while the filters and the selected release change.
NextProxy ==
    \/ UpdateView
    \/ SetFrontPage
    \/ SetFilterText
    \/ SetFilterArchitecture
    \/ SetSelectedIndex

SpecProxy == Init /\ [][NextProxy]_vars

\* The state after construction for any order of the sections files.
InitSeed ==
    /\ sections \in SectionOrders
    /\ job = NoRestoreJob
    /\ releases = SeedCatalog(sections)
    /\ m_selectedIndex = 0
    /\ m_frontPage = TRUE
    /\ m_filterText = <<>>
    /\ m_filterArchitecture = 0
    /\ proxyRows = invalidateFilter(SeedCatalog(sections), TRUE, <<>>, 0)
    /\ m_beingUpdated = TRUE
    /\ currentDownloadingReleaseIndex = 0
    /\ fetches = <<>>
    /\ timers = 1
    /\ crashed = FALSE
    /\ cache = [i \in 0..(Len(releaseImagesList) - 1) |-> <<>>]

NextSeed == SetSelectedIndex \/ SetFrontPage

SpecSeed == InitSeed /\ [][NextSeed]_vars

\* The ingestion started by the constructor, with page requests that are
\* answered or fail.
NextLoader == FetchReleases \/ OnStringDownloaded \/ OnDownloadError

SpecLoader == Init /\ [][NextLoader]_vars

\* The ingestion when the event loop delivers what is pending: a single-shot
\* timer that was started fires, and a page request gets its answer (however
\* often the answer is a failure).
SpecLoaderFair ==
    /\ SpecLoader
    /\ WF_vars(FetchReleases)
    /\ WF_vars(OnDownloadError \/ OnStringDownloaded)

\* The documents found in cache files at start
CachedDocs == { d \in Docs : Len(d) = 2 }

\* What releaseImagesCacheDir() can hold when the program starts: each file is
\* absent or holds a document
CacheContents == [0..(Len(releaseImagesList) - 1) -> {<<>>} \cup { <<d>> : d \in CachedDocs }]

\* First loop of the constructor of ReleaseManager from file i on: the cached
\* files are loaded in order up to the first one that cannot be opened
RECURSIVE LoadCached(_, _, _)
LoadCached(rels, files, i) ==
    IF i >= Len(releaseImagesList) THEN [releases |-> rels, loadedCachedReleases |-> TRUE]
    ELSE IF files[i] = <<>> THEN [releases |-> rels, loadedCachedReleases |-> FALSE]
    ELSE LoadCached(loadReleaseImages(rels, files[i][1]), files, i + 1)

\* Second loop of the constructor: the built-in files, each holding builtIn
RECURSIVE LoadBuiltIn(_, _, _)
LoadBuiltIn(rels, builtIn, i) ==
    IF i >= Len(releaseImagesList) THEN rels
    ELSE LoadBuiltIn(loadReleaseImages(rels, builtIn), builtIn, i + 1)

\* The catalog the constructor of ReleaseManager leaves
Constructed(seed, files, builtIn) ==
    LET c == LoadCached(seed, files, 0)
    IN  IF c.loadedCachedReleases THEN c.releases ELSE LoadBuiltIn(c.releases, builtIn, 0)

\* The state after construction for any cache and any built-in document
InitLoaded ==
    /\ sections = SectionMembers
    /\ job = NoRestoreJob
    /\ \E files \in CacheContents, builtIn \in Docs :
           /\ cache = files
           /\ releases = Constructed(SeedCatalog(sections), files, builtIn)
    /\ m_selectedIndex = 0
    /\ m_frontPage = TRUE
    /\ m_filterText = <<>>
    /\ m_filterArchitecture = 0
    /\ proxyRows = invalidateFilter(releases, TRUE, <<>>, 0)
    /\ m_beingUpdated = TRUE
    /\ currentDownloadingReleaseIndex = 0
    /\ fetches = <<>>
    /\ timers = 1
    /\ crashed = FALSE

\* The ingestion after a start from cached or built-in documents.
SpecBoot == InitLoaded /\ [][NextLoader]_vars

\* The ingestion interleaved with direct merges.
UpdateIngest == UpdateUrl(IngestRecords)

NextIngest == FetchReleases \/ OnStringDownloaded \/ OnDownloadError \/ UpdateIngest

\* The state after the construction of a RestoreJob, for any objects UDisks2
\* may list; the application is as Init leaves it
InitRestore ==
    /\ sections = SectionMembers
    /\ job \in { NewRestoreJob(objects) : objects \in ManagedObjects }
    /\ releases = SeedCatalog(sections)
    /\ m_selectedIndex = 0
    /\ m_frontPage = TRUE
    /\ m_filterText = <<>>
    /\ m_filterArchitecture = 0
    /\ proxyRows = invalidateFilter(SeedCatalog(sections), TRUE, <<>>, 0)
    /\ m_beingUpdated = TRUE
    /\ currentDownloadingReleaseIndex = 0
    /\ fetches = <<>>
    /\ timers = 1
    /\ crashed = FALSE
    /\ cache = [i \in 0..(Len(releaseImagesList) - 1) |-> <<>>]

NextRestore == Work \/ Unmount \/ Format \/ CreatePartition \/ FormatPartition

\* The helper process restoring a drive.
SpecRestore == InitRestore /\ [][NextRestore]_vars

SpecIngest == Init /\ [][NextIngest]_vars

\* Merging records that leave out or repeat what a variant already holds.
UpdateFields == UpdateUrl(EraseRecords)

NextFields == UpdateFields

SpecFields == Init /\ [][NextFields]_vars

\* Every position <<release, version, variant>> of the catalog
VariantPositions ==
    { p \in (1..Len(releases)) \X (1..MaxVersions + 1) \X (1..MaxVariants + 1) :
        /\ p[2] <= Len(releases[p[1]].versions)
        /\ p[3] <= Len(releases[p[1]].versions[p[2]].variants) }

VariantAt(p) == releases[p[1]].versions[p[2]].variants[p[3]]

\* ReleaseVariant::download on the current variant, when DownloadManager has no
\* download running for it. Where the handler goes through the null
\* m_progress the process either stops or goes on without the store.
Download ==
    /\ ~crashed
    /\ variant(releases, m_selectedIndex)[1] # 0
    /\ ~CurrentVariant.transfer
    /\ \E ret \in DownloadFileResults(CurrentVariant.url), fsize \in DownloadedSizes, stops \in BOOLEAN :
           LET r == download(CurrentVariant, ret, fsize)
           IN  IF r.nullDeref /\ stops
               THEN /\ crashed' = TRUE
                    /\ UNCHANGED <<sections, job, releases, m_selectedIndex, viewVars, loaderVars>>
               ELSE ChangeVariant(r.variant)

\* ReleaseVariant::onFileDownloaded(path, hash): DownloadManager finished the
\* file download of a variant.
OnFileDownloaded ==
    /\ ~crashed
    /\ \E p \in VariantPositions, hash \in ComputedHashes, checkResult \in CheckResults,
          renamed \in BOOLEAN, fsize \in DownloadedSizes, stops \in BOOLEAN :
           /\ VariantAt(p).transfer
           /\ LET r == onFileDownloaded(VariantAt(p), VariantAt(p).temporaryImage, hash,
                                        checkResult, renamed, fsize)
              IN  IF r.nullDeref /\ stops
                  THEN /\ crashed' = TRUE
                       /\ UNCHANGED <<sections, job, releases, m_selectedIndex, viewVars, loaderVars>>
                  ELSE /\ releases' = [releases EXCEPT ![p[1]].versions[p[2]].variants[p[3]] = r.variant]
                       /\ UNCHANGED <<crashed, sections, job, m_selectedIndex, viewVars, loaderVars>>

\* ReleaseVariant::onDownloadError(message): DownloadManager gave up the file
\* download of a variant.
OnFileDownloadError ==
    /\ ~crashed
    /\ \E p \in VariantPositions, message \in ErrorArgs :
           /\ VariantAt(p).transfer
           /\ releases' = [releases EXCEPT ![p[1]].versions[p[2]].variants[p[3]] =
                              [VariantOnDownloadError(@, message) EXCEPT !.transfer = FALSE]]
           /\ UNCHANGED <<crashed, sections, job, m_selectedIndex, viewVars, loaderVars>>

\* ReleaseVariant::onStringDownloaded(text): the MD5SUM page of a variant arrived.
OnMd5sumDownloaded ==
    /\ ~crashed
    /\ \E p \in VariantPositions, text \in Md5sumTexts :
           /\ VariantAt(p).md5sum
           /\ LET r == VariantOnStringDownloaded(VariantAt(p), cache, text)
              IN  /\ releases' = [releases EXCEPT ![p[1]].versions[p[2]].variants[p[3]] = r.variant]
                  /\ cache' = r.cache
           /\ UNCHANGED <<crashed, sections, job, m_selectedIndex, viewVars, m_beingUpdated,
                          currentDownloadingReleaseIndex, fetches, timers>>

\* A failed write: the write collaborator stores its message and FAILED in
\* the current variant, whose image it was writing, through setErrorString
\* and setStatus.
WriteFailed ==
    /\ variant(releases, m_selectedIndex)[1] # 0
    /\ ~IsEmpty(CurrentVariant.image)
    /\ CurrentVariant.status = "READY"
    /\ \E o \in ErrorArgs :
           ChangeVariant(setStatus(setErrorString(CurrentVariant, o), "FAILED"))

\* Downloading the image of a variant and choosing a local file.
UpdateDownloads == UpdateUrl(DownloadRecords)

NextDownload ==
    \/ UpdateDownloads
    \/ SetSelectedIndex
    \/ SetLocalFile
    \/ Download
    \/ OnFileDownloaded
    \/ OnFileDownloadError
    \/ OnMd5sumDownloaded
    \/ WriteFailed

SpecDownload == Init /\ [][NextDownload]_vars

\* The ingestion while images of the variants it created are downloaded.
NextCache ==
    \/ FetchReleases
    \/ OnStringDownloaded
    \/ OnDownloadError
    \/ Download
    \/ OnMd5sumDownloaded

SpecCache == Init /\ [][NextCache]_vars

\* Variant::download on the current variant, when no ImageDownload exists for it
VariantDownload ==
    /\ variant(releases, m_selectedIndex)[1] # 0
    /\ ~CurrentVariant.transfer
    /\ \E already_downloaded \in BOOLEAN, fsize \in DownloadedSizes :
           ChangeVariant(Variant_download(CurrentVariant, already_downloaded, fsize))

\* The variant at position p becomes w.
ChangeVariantAt(p, w) ==
    /\ ~crashed
    /\ VariantAt(p) # w
    /\ releases' = [releases EXCEPT ![p[1]].versions[p[2]].variants[p[3]] = w]
    /\ UNCHANGED <<crashed, sections, job, m_selectedIndex, viewVars, loaderVars>>

\* A signal of the ImageDownload of a variant reaches the lambda connected to
\* it; a download that was told to cancel sends no more of them.
OnImageDownloadSignal ==
    \E p \in VariantPositions, signal \in ImageDownloadSignals, value \in DownloadedSizes :
        /\ VariantAt(p).transfer
        /\ ~VariantAt(p).cancelled
        /\ ChangeVariantAt(p, Variant_onSignal(VariantAt(p), signal, value))

\* Variant::cancelDownload on the current variant
CancelDownload ==
    /\ variant(releases, m_selectedIndex)[1] # 0
    /\ ChangeVariant(Variant_cancelDownload(CurrentVariant))

\* Variant::onImageDownloadFinished: the ImageDownload of a variant finished,
\* with the result Cancelled when it was told to cancel.
OnImageDownloadFinished ==
    \E p \in VariantPositions, result \in ImageDownloadResults, fsize \in DownloadedSizes :
        /\ VariantAt(p).transfer
        /\ (result = "Cancelled") = VariantAt(p).cancelled
        /\ ChangeVariantAt(p, Variant_onImageDownloadFinished(VariantAt(p), result, E_failed, fsize))

\* Downloads that are cancelled while the ingestion goes on.
NextCancel ==
    \/ FetchReleases
    \/ OnStringDownloaded
    \/ VariantDownload
    \/ OnImageDownloadSignal
    \/ CancelDownload
    \/ OnImageDownloadFinished

SpecCancel == Init /\ [][NextCancel]_vars

---------------------------------------------------------------------------
(* Properties                                                              *)

\* The sequence of version numbers of a release
Numbers(r) == [j \in 1..Len(r.versions) |-> r.versions[j].number]

HasNumber(r, number) == FindVersion(r.versions, number) # 0

\* C1: after any sequence of updateUrl calls every release has at most two
\* versions whose status is FINAL.
C1_AtMostTwoFinal ==
    \A i \in 1..Len(releases) : CountFinal(releases[i].versions) <= 2

\* A version with this number is in release i before and after the step and
\* its status ordinal has not grown.
StatusNotRegressed(before, after) ==
    \A i \in 1..Len(before) :
        \A j \in 1..Len(before[i].versions) :
            LET k == FindVersion(after[i].versions, before[i].versions[j].number)
            IN  k # 0 => after[i].versions[k].status <= before[i].versions[j].status

\* An "alpha" record for a version that is FINAL is rejected: updateUrl
\* returns false and the catalog is as before.
AlphaOnFinalRejected ==
    \A rec \in Records :
        LET i   == FindRelease(releases, rec.name)
            res == ManagerUpdateUrl(releases, rec)
        IN  ( /\ rec.status = S_alpha
              /\ i # 0
              /\ \E j \in 1..Len(releases[i].versions) :
                     /\ releases[i].versions[j].number = rec.version
                     /\ releases[i].versions[j].status = FINAL )
            => (res.ret = FALSE /\ res.releases = releases)

\* C2: in every step the status ordinal (FINAL=0 < RELEASE_CANDIDATE=1 < BETA=2
\* < ALPHA=3) of each version stays equal or decreases, and an update with
\* status text "alpha" for a FINAL version leaves it FINAL and returns false.
C2_StatusNeverRegresses ==
    [][StatusNotRegressed(releases, releases') /\ AlphaOnFinalRejected]_vars

\* A version that was upgraded to FINAL with a release date, for which an
\* "alpha" record is rejected.
C2_Witness ==
    \E i \in 1..Len(releases) :
        \E j \in 1..Len(releases[i].versions) :
            /\ ~isLocal(releases[i])
            /\ releases[i].versions[j].status = FINAL
            /\ IsValidDate(releases[i].versions[j].releaseDate)
            /\ \E rec \in Records :
                   /\ rec.status = S_alpha
                   /\ rec.version = releases[i].versions[j].number
                   /\ FindRelease(releases, rec.name) = i
                   /\ ManagerUpdateUrl(releases, rec).ret = FALSE

\* The number of the selected version of release r, for selectedVersion(r) # 0
SelectedNumber(r) == r.versions[selectedVersion(r)].number

\* The call inserts a new FINAL version into release r at a list position at
\* or before the selected index.
InsertsFinalAtOrBeforeSelected(r, rec) ==
    /\ ~HasNumber(r, rec.version)
    /\ StatusFromText(rec.status) = FINAL
    /\ AddVersionIndex(r.versions, rec.version) <= r.selectedVersion

\* Every version stored up to and including the selected one is still in the
\* release after the call.
KeepsVersionsUpToSelected(r, after) ==
    \A q \in 1..selectedVersion(r) : HasNumber(after, r.versions[q].number)

\* C3 as stated: a selected version that is not evicted by an updateUrl call
\* is still the selected version after the call, whatever the number and the
\* status of the version the call inserts.
C3_SelectionKeptWhateverStatus ==
    \A rec \in VersionRecords :
        LET res == ManagerUpdateUrl(releases, rec).releases
        IN  \A i \in 1..Len(releases) :
                ( /\ selectedVersion(releases[i]) # 0
                  /\ HasNumber(res[i], SelectedNumber(releases[i])) )
                => ( /\ selectedVersion(res[i]) # 0
                     /\ SelectedNumber(res[i]) = SelectedNumber(releases[i]) )

\* C3 amended: a selected version is still the selected version after an
\* updateUrl call, provided the call neither inserts a FINAL version at a
\* position at or before the selected index nor evicts the selected version
\* or a version stored before it.
C3_SelectionKept ==
    \A rec \in Records :
        LET res == ManagerUpdateUrl(releases, rec).releases
            t   == FindRelease(releases, rec.name)
        IN  \A i \in 1..Len(releases) :
                ( /\ selectedVersion(releases[i]) # 0
                  /\ KeepsVersionsUpToSelected(releases[i], res[i])
                  /\ ~(i = t /\ InsertsFinalAtOrBeforeSelected(releases[i], rec)) )
                => ( /\ selectedVersion(res[i]) # 0
                     /\ SelectedNumber(res[i]) = SelectedNumber(releases[i]) )

\* A release whose selected version is not the first one, and a record that
\* inserts a new non-FINAL version before it: the index moves by one.
C3_Witness ==
    \E rec \in Records :
        LET t   == FindRelease(releases, rec.name)
            res == ManagerUpdateUrl(releases, rec)
        IN  /\ t # 0
            /\ res.ret
            /\ selectedVersion(releases[t]) > 1
            /\ ~HasNumber(releases[t], rec.version)
            /\ StatusFromText(rec.status) # FINAL
            /\ AddVersionIndex(releases[t].versions, rec.version)
                   <= releases[t].selectedVersion
            /\ res.releases[t].selectedVersion = releases[t].selectedVersion + 1
            /\ SelectedNumber(res.releases[t]) = SelectedNumber(releases[t])

\* The architecture and board of the selected variant of a version
SelectedVariantKey(ver) ==
    <<ver.variants[selectedVariant(ver)].arch,
      ver.variants[selectedVariant(ver)].board>>

\* C4: the selected variant of a version (same architecture and board) is
\* still its selected variant after an updateUrl call, also when the call
\* inserts a new variant at a position at or before the selected index.
C4_VariantSelectionKept ==
    \A rec \in Records :
        LET res == ManagerUpdateUrl(releases, rec).releases
        IN  \A i \in 1..Len(releases) :
                \A j \in 1..Len(releases[i].versions) :
                    LET ver == releases[i].versions[j]
                        k   == FindVersion(res[i].versions, ver.number)
                    IN  (selectedVariant(ver) # 0 /\ k # 0)
                        => ( /\ selectedVariant(res[i].versions[k]) # 0
                             /\ SelectedVariantKey(res[i].versions[k])
                                    = SelectedVariantKey(ver) )

\* The version numbers of r descend strictly in QString order.
Descending(r) ==
    \A j \in 1..(Len(r.versions) - 1) :
        StrLess(r.versions[j + 1].number, r.versions[j].number)

VersionRecord(number) ==
    Rec(S_alt, number, S_final, NullDate, A_x86_64, "ISO", S_PC, U_a, <<>>, <<>>, 0)

ArrivalExample ==
    LET c0 == SeedCatalog(SectionMembers)
        c1 == ManagerUpdateUrl(c0, VersionRecord(<<"4", "1">>)).releases
        c2 == ManagerUpdateUrl(c1, VersionRecord(<<"3", "9">>)).releases
        c3 == ManagerUpdateUrl(c2, VersionRecord(<<"4", "0">>)).releases
        t  == FindRelease(c0, S_alt)
    IN  /\ Len(c0[t].versions) = 0
        /\ Numbers(c3[t]) = << <<"4", "1">>, <<"4", "0">>, <<"3", "9">> >>

\* C5: the versions of each release are stored in strictly descending order
\* of their numbers compared as strings (so the numbers are unique), and the
\* arrivals "41", "39", "40" into an empty release are stored as
\* "41", "40", "39".
C5_VersionsDescending ==
    /\ \A i \in 1..Len(releases) : Descending(releases[i])
    /\ ArrivalExample

\* A release that holds "9" before "41" before "40": the order is the string
\* order, not the numeric one.
C5_Witness ==
    \E i \in 1..Len(releases) :
        Numbers(releases[i]) = << <<"9">>, <<"4", "1">>, <<"4", "0">> >>

\* C6: for every catalog state and every update record, applying the
\* identical record twice in a row leaves the catalog (releases, versions
\* and their order, statuses, release dates, variants and their fields, the
\* selection indices) as it is after applying the record once.
C6_Idempotent ==
    \A rec \in Records :
        LET once == ManagerUpdateUrl(releases, rec).releases
        IN  ManagerUpdateUrl(once, rec).releases = once

\* A catalog with three versions in one release and a record whose first
\* application changes it: a new version is inserted, or a status, a release
\* date or a variant field is overwritten.
C6_Witness ==
    /\ \E i \in 1..Len(releases) : Len(releases[i].versions) = 3
    /\ \E rec \in Records :
           LET once == ManagerUpdateUrl(releases, rec).releases
           IN  /\ once # releases
               /\ HasNumber(releases[FindRelease(releases, rec.name)], rec.version)
               /\ ManagerUpdateUrl(once, rec).releases = once
    /\ \E rec \in Records :
           LET once == ManagerUpdateUrl(releases, rec).releases
           IN  /\ once # releases
               /\ ~HasNumber(releases[FindRelease(releases, rec.name)], rec.version)
               /\ ManagerUpdateUrl(once, rec).releases = once

\* C7: for every catalog state and every update record, the second of two
\* consecutive applications of the identical record emits no signal.
C7_SecondApplicationSilent ==
    \A rec \in VersionRecords :
        LET once == ManagerUpdateUrl(releases, rec).releases
        IN  ManagerUpdateUrl(once, rec).signals = <<>>

\* C8: updateUrl returns true if and only if the call changed the catalog.
C8_ReturnsTrueIffChanged ==
    \A rec \in VersionRecords :
        LET res == ManagerUpdateUrl(releases, rec)
        IN  res.ret <=> (res.releases # releases)

\* needle occurs in hay when letter case is ignored
ContainsIgnoreCase(hay, needle) == Contains(ToLower(hay), ToLower(needle))

\* 1-based position of the first release whose name contains the key when
\* letter case is ignored, 0 when there is none
FirstMatchIgnoreCase(rels, key) ==
    IF \E i \in 1..Len(rels) : ContainsIgnoreCase(rels[i].name, key)
    THEN CHOOSE i \in 1..Len(rels) :
             /\ ContainsIgnoreCase(rels[i].name, key)
             /\ \A k \in 1..(i - 1) : ~ContainsIgnoreCase(rels[k].name, key)
    ELSE 0

\* C9: updateUrl applies the record to the first release in catalog order
\* whose name contains the match key as a substring, letter case ignored; when
\* no release matches it returns false and changes nothing.
C9_FirstMatchIgnoringCase ==
    \A rec \in KeyRecords :
        LET i   == FirstMatchIgnoreCase(releases, rec.name)
            res == ManagerUpdateUrl(releases, rec)
        IN  IF i = 0
            THEN res.ret = FALSE /\ res.releases = releases
            ELSE /\ res.releases[i] = ReleaseUpdateUrl(releases[i], rec).release
                 /\ \A k \in 1..Len(releases) : k # i => res.releases[k] = releases[k]

\* The versions of a release without their selectedVariant indices
VersionsContent(r) ==
    [j \in 1..Len(r.versions) |->
        [number      |-> r.versions[j].number,
         status      |-> r.versions[j].status,
         releaseDate |-> r.versions[j].releaseDate,
         variants    |-> r.versions[j].variants]]

\* C10: no updateUrl call, for any match key, adds, removes or modifies a
\* version or a variant of the local release "custom".
C10_CustomNeverMerged ==
    \A i \in 1..Len(releases) :
        isLocal(releases[i]) => VersionsContent(releases[i]) = VersionsContent(CustomRelease)


\* abbr is an abbreviation of no entry of the registry, letter case ignored
NotAnAbbreviation(abbr) ==
    \A a \in 1..Len(m_all) :
        \A k \in 1..Len(m_all[a].abbreviation) :
            ToLower(m_all[a].abbreviation[k]) # ToLower(abbr)

\* C11: updateUrl with an architecture abbreviation that belongs to no
\* registered architecture, or with the image type UNKNOWN, returns false and
\* leaves every release, version, variant and selection index unchanged.
C11_UnclassifiedRejected ==
    \A rec \in Records :
        (NotAnAbbreviation(rec.architecture) \/ rec.imageType = "UNKNOWN")
        => LET res == ManagerUpdateUrl(releases, rec)
           IN  res.ret = FALSE /\ res.releases = releases

\* A release with two variants in one version receives a record with an
\* unregistered abbreviation and one with the image type UNKNOWN.
C11_Witness ==
    /\ \E i \in 1..Len(releases) :
           /\ ~isLocal(releases[i])
           /\ \E j \in 1..Len(releases[i].versions) :
                  Len(releases[i].versions[j].variants) >= 2
           /\ \E rec \in ArchRecords :
                  /\ NotAnAbbreviation(rec.architecture)
                  /\ FindRelease(releases, rec.name) = i
                  /\ HasNumber(releases[i], rec.version)
                  /\ ManagerUpdateUrl(releases, rec).ret = FALSE
           /\ \E rec \in ArchRecords :
                  /\ rec.imageType = "UNKNOWN"
                  /\ FindRelease(releases, rec.name) = i
                  /\ ManagerUpdateUrl(releases, rec).ret = FALSE

\* The set of version numbers of a release
NumberSet(r) == { r.versions[j].number : j \in 1..Len(r.versions) }

\* The smallest string of a non-empty set of distinct strings
SmallestNumber(numbers) ==
    CHOOSE n \in numbers : \A o \in numbers \ {n} : StrLess(n, o)

\* FINAL "38", "39" and "40" merged in this order into an empty release
RetentionExample ==
    LET r0 == NewRelease(S_alt_workstation, D_Workstation)
        r1 == ReleaseUpdateUrl(r0, VersionRecord(<<"3", "8">>)).release
        r2 == ReleaseUpdateUrl(r1, VersionRecord(<<"3", "9">>)).release
    IN  ReleaseUpdateUrl(r2, VersionRecord(<<"4", "0">>)).release

\* C12: when a new FINAL version arrives at a release that has two FINAL
\* versions, that call removes exactly one version, the one with the smallest
\* number in string order among all versions of the release, and two FINAL
\* versions remain; "38", "39" and then "40" leave "40" and "39".
C12_EvictsSmallest ==
    /\ \A rec \in VersionRecords :
           LET i   == FindRelease(releases, rec.name)
               r   == releases[i]
               all == NumberSet(r) \cup {rec.version}
               res == ManagerUpdateUrl(releases, rec).releases[i]
           IN  ( /\ i # 0
                 /\ ~HasNumber(r, rec.version)
                 /\ StatusFromText(rec.status) = FINAL
                 /\ CountFinal(r.versions) = 2 )
               => ( /\ NumberSet(res) = all \ {SmallestNumber(all)}
                    /\ Len(res.versions) = Len(r.versions)
                    /\ CountFinal(res.versions) = 2 )
    /\ Numbers(RetentionExample) = << <<"4", "0">>, <<"3", "9">> >>


\* C13: after any sequence of updateUrl calls no version holds two variants
\* with the same architecture and the same board, where every abbreviation of
\* one architecture ("x86", "i386") denotes that architecture.
C13_VariantKeysUnique ==
    \A i \in 1..Len(releases) :
        \A j \in 1..Len(releases[i].versions) :
            LET vs == releases[i].versions[j].variants
            IN  \A a, b \in 1..Len(vs) :
                    (vs[a].arch = vs[b].arch /\ vs[a].board = vs[b].board) => a = b

\* A version holds two variants of the 32-bit Intel architecture on different
\* boards, and a record naming that architecture "i386" finds one of them.
C13_Witness ==
    \E i \in 1..Len(releases) :
        \E j \in 1..Len(releases[i].versions) :
            LET vs == releases[i].versions[j].variants
            IN  /\ \E a, b \in 1..Len(vs) :
                       /\ a # b
                       /\ vs[a].arch = fromAbbreviation(A_x86)
                       /\ vs[b].arch = fromAbbreviation(A_x86)
                /\ \E rec \in ArchRecords :
                       /\ rec.architecture = A_i386
                       /\ FindRelease(releases, rec.name) = i
                       /\ rec.version = releases[i].versions[j].number
                       /\ Len(ManagerUpdateUrl(releases, rec).releases[i].versions[j].variants)
                              = Len(vs)

\* The variants of vs stand in the order of their architectures in m_all.
InRegistryOrder(vs) ==
    \A a \in 1..(Len(vs) - 1) : vs[a].arch <= vs[a + 1].arch

\* after is vs with one variant of (arch, board) added, placed immediately
\* before the first variant of vs whose architecture ranks after arch, or
\* last when there is none.
InsertedBeforeFirstLater(vs, after, arch, board) ==
    /\ Len(after) = Len(vs) + 1
    /\ \E p \in 1..Len(after) :
           /\ after[p].arch = arch
           /\ after[p].board = board
           /\ SubSeq(after, 1, p - 1) = SubSeq(vs, 1, p - 1)
           /\ SubSeq(after, p + 1, Len(after)) = SubSeq(vs, p, Len(vs))
           /\ \A k \in 1..(p - 1) : vs[k].arch <= arch
           /\ p <= Len(vs) => vs[p].arch > arch

\* C14: the variants of every version stand in non-decreasing order of their
\* architectures in the registry; a new variant is placed immediately before
\* the first existing variant whose architecture ranks after its own, so
\* after the variants of its own architecture, and last when there is none.
C14_VariantsInRegistryOrder ==
    /\ \A i \in 1..Len(releases) :
           \A j \in 1..Len(releases[i].versions) :
               InRegistryOrder(releases[i].versions[j].variants)
    /\ \A rec \in Records :
           LET i    == FindRelease(releases, rec.name)
               j    == FindVersion(releases[i].versions, rec.version)
               ver  == releases[i].versions[j]
               arch == fromAbbreviation(rec.architecture)
               res  == ManagerUpdateUrl(releases, rec).releases[i].versions[j]
           IN  ( /\ i # 0
                 /\ j # 0
                 /\ ~NotAnAbbreviation(rec.architecture)
                 /\ rec.imageType # "UNKNOWN"
                 /\ StatusFromText(rec.status) <= ver.status
                 /\ \A k \in 1..Len(ver.variants) :
                        ~(ver.variants[k].arch = arch /\ ver.variants[k].board = rec.board) )
               => InsertedBeforeFirstLater(ver.variants, res.variants, arch, rec.board)

\* A version holds an x86-64 variant followed by an x86 variant, and a record
\* for x86-64 on another board is placed between the two.
C14_Witness ==
    \E i \in 1..Len(releases) :
        \E j \in 1..Len(releases[i].versions) :
            LET vs == releases[i].versions[j].variants
            IN  /\ Len(vs) = 2
                /\ vs[1].arch = X86_64
                /\ vs[2].arch = fromAbbreviation(A_x86)
                /\ \E rec \in ArchRecords :
                       /\ rec.architecture = A_x86_64
                       /\ FindRelease(releases, rec.name) = i
                       /\ rec.version = releases[i].versions[j].number
                       /\ LET after == ManagerUpdateUrl(releases, rec).releases[i].versions[j].variants
                          IN  /\ Len(after) = 3
                              /\ after[2].arch = X86_64
                              /\ after[2].board = rec.board
                              /\ after[3] = vs[2]

\* C15: an update for an existing variant that differs from it only in a
\* non-empty sha256 leaves the url and the size of the variant unchanged and
\* emits exactly one signal, shaHashChanged.
C15_HashOnlyUpdate ==
    \A rec \in FieldRecords :
        LET i   == FindRelease(releases, rec.name)
            j   == FindVersion(releases[i].versions, rec.version)
            ver == releases[i].versions[j]
            k   == FindVariant(ver.variants, fromAbbreviation(rec.architecture), rec.board)
            v   == ver.variants[k]
            res == ManagerUpdateUrl(releases, rec)
            w   == res.releases[i].versions[j].variants[k]
        IN  ( /\ i # 0
              /\ j # 0
              /\ k # 0
              /\ StatusFromText(rec.status) = ver.status
              /\ rec.releaseDate = ver.releaseDate
              /\ rec.url = v.url
              /\ rec.size = v.size
              /\ rec.md5 = v.md5
              /\ rec.imageType = v.imageType
              /\ ~IsEmpty(rec.sha256)
              /\ rec.sha256 # v.shaHash )
            => ( /\ w.url = v.url
                 /\ w.size = v.size
                 /\ w.shaHash = rec.sha256
                 /\ res.signals = <<"shaHashChanged">> )


\* What a variant carries besides the fields a record may overwrite
TransferState(v) ==
    [status |-> v.status, error |-> v.error, progress |-> v.progress,
     image |-> v.image, md5 |-> v.md5, imageType |-> v.imageType]

\* Every variant of vs is among ws, same architecture and board, with the
\* transfer state it has in vs.
VariantsKept(vs, ws) ==
    \A k \in 1..Len(vs) :
        \E l \in 1..Len(ws) :
            /\ ws[l].arch = vs[k].arch
            /\ ws[l].board = vs[k].board
            /\ TransferState(ws[l]) = TransferState(vs[k])

\* after is before with a version of this number inserted, and possibly one
\* version removed; every other version is the same in both.
VersionInserted(before, after, number) ==
    \/ after = before
    \/ \E p \in 1..Len(after) :
           /\ after[p].number = number
           /\ \/ ListRemoveAt(after, p - 1) = before
              \/ \E q \in 1..Len(before) :
                     ListRemoveAt(after, p - 1) = ListRemoveAt(before, q - 1)

\* C16: updateUrl never changes the status, the error string, the progress,
\* the image path, the md5 or the image type of a variant that exists before
\* and after the call, whatever the record holds.
C16_TransferStateKept ==
    \A rec \in TransferRecords :
        LET res == ManagerUpdateUrl(releases, rec).releases
        IN  \A i \in 1..Len(releases) :
                IF HasNumber(releases[i], rec.version)
                THEN /\ Len(res[i].versions) = Len(releases[i].versions)
                     /\ \A j \in 1..Len(releases[i].versions) :
                            /\ res[i].versions[j].number = releases[i].versions[j].number
                            /\ VariantsKept(releases[i].versions[j].variants,
                                            res[i].versions[j].variants)
                ELSE VersionInserted(releases[i].versions, res[i].versions, rec.version)

\* rec overwrites the url of the variant v of the release at position i.
Overwrites(rec, i, v) ==
    /\ FindRelease(releases, rec.name) = i
    /\ HasNumber(releases[i], rec.version)
    /\ fromAbbreviation(rec.architecture) = v.arch
    /\ rec.board = v.board
    /\ rec.url # v.url
    /\ ManagerUpdateUrl(releases, rec).ret

\* A record overwrites a failed variant that has an error string, a Progress
\* object and an md5, with another image type than the record's; and a record
\* overwrites a READY variant that has a local image.
C16_Witness ==
    /\ \E i \in 1..Len(releases) :
           \E j \in 1..Len(releases[i].versions) :
               \E k \in 1..Len(releases[i].versions[j].variants) :
                   LET v == releases[i].versions[j].variants[k]
                   IN  /\ v.status = "FAILED_DOWNLOAD"
                       /\ v.error # <<>>
                       /\ v.progress # <<>>
                       /\ v.md5 # <<>>
                       /\ \E rec \in TransferRecords :
                              Overwrites(rec, i, v) /\ rec.imageType # v.imageType
    /\ \E i \in 1..Len(releases) :
           \E j \in 1..Len(releases[i].versions) :
               \E k \in 1..Len(releases[i].versions[j].variants) :
                   LET v == releases[i].versions[j].variants[k]
                   IN  /\ v.status = "READY"
                       /\ v.image # <<>>
                       /\ \E rec \in TransferRecords : Overwrites(rec, i, v)


\* The selected variant of version ver is one of its variants
SelectedVariantLive(ver) == ver.selectedVariant >= 0 /\ ver.selectedVariant < Len(ver.variants)

\* C17: after any sequence of merges, setFilterArchitecture(o) and
\* setSelectedVariantIndex(o) calls with arbitrary o, every version with a
\* non-empty variant list has 0 <= selected variant index < number of variants.
C17_SelectedVariantLive ==
    \A i \in 1..Len(releases) :
        \A j \in 1..Len(releases[i].versions) :
            Len(releases[i].versions[j].variants) > 0
                => SelectedVariantLive(releases[i].versions[j])

\* 0-based rows of the catalog that the filter accepts
VisibleRows == { row \in 0..(Len(releases) - 1) : filterAcceptsRow(releases, row, m_frontPage, m_filterText, m_filterArchitecture) }

\* Architectures of all variants of all versions of release r
ArchitecturesOf(r) == UNION { { r.versions[j].variants[k].arch : k \in 1..Len(r.versions[j].variants) } : j \in 1..Len(r.versions) }

\* Release r is to be shown when the front page is off
ShownByFilters(r) == r.name = S_custom \/ (m_filterArchitecture \in ArchitecturesOf(r) /\ ContainsIgnoreCase(r.displayName, m_filterText))

\* C18: the view shows exactly the releases at positions 0, 1 and 2 in
\* front-page mode, whatever the other filters; otherwise exactly the releases
\* that are local (name "custom") or that have a variant of the filtered
\* architecture in some version and a display name containing the text filter
\* when letter case is ignored. The "custom" release is visible under every
\* filter setting.
C18_ViewShowsFiltered ==
    /\ m_frontPage => VisibleRows = {0, 1, 2} \cap (0..(Len(releases) - 1))
    /\ ~m_frontPage => VisibleRows = { row \in 0..(Len(releases) - 1) : ShownByFilters(releases[row + 1]) }
    /\ \E row \in VisibleRows : releases[row + 1].name = S_custom

\* The front page is off, a text in another letter case is filtered, and a
\* release that has only an AArch64 variant is hidden under the x86-64 filter
\* while the same release passes under the AArch64 filter; the local release
\* is shown although it matches neither filter.
C18_Witness ==
    /\ ~m_frontPage
    /\ m_filterText = T_SERV
    /\ m_filterArchitecture = X86_64
    /\ \E row \in 0..(Len(releases) - 1) :
          /\ ArchitecturesOf(releases[row + 1]) = {fromAbbreviation(A_aarch64)}
          /\ row \notin VisibleRows
          /\ filterAcceptsRow(releases, row, m_frontPage, m_filterText, fromAbbreviation(A_aarch64))
    /\ \E row \in VisibleRows :
          /\ releases[row + 1].name = S_custom
          /\ ~ContainsIgnoreCase(releases[row + 1].displayName, m_filterText)
          /\ m_filterArchitecture \notin ArchitecturesOf(releases[row + 1])


\* The names of the catalog's releases, by position
CatalogNames == [k \in 1..Len(releases) |-> releases[k].name]

\* The release of this sections member is neither alt-workstation nor alt-server
OtherMember(m) == m.code # S_alt_workstation /\ m.code # S_alt_server

\* The codes of the other members, in the order of the sections files
OthersInSourceOrder == LET others == SelectSeq(sections, OtherMember) IN [k \in 1..Len(others) |-> others[k].code]

\* C19: for every order in which the sections files list the releases, the
\* seeded catalog has alt-workstation at position 0, alt-server at position 1,
\* custom at position 2 and all other releases after them in source order.
C19_SeedOrder == CatalogNames = <<S_alt_workstation, S_alt_server, S_custom>> \o OthersInSourceOrder


\* A step hands a new page request to the transport
NewRequest == fetches' # fetches /\ Len(fetches') >= Len(fetches)

\* The source index of the request made last
LastRequested(list) == list[Len(list)]

\* A new request is for source 0 when nothing is outstanding, or for source
\* i+1 in the step that takes the answer for source i and merges all of its
\* document.
RequestedInOrder ==
    NewRequest =>
        \/ /\ LastRequested(fetches') = 0
           /\ fetches = <<>>
        \/ /\ LastRequested(fetches') > 0
           /\ fetches = <<LastRequested(fetches') - 1>>
           /\ \E text \in Docs : releases' = loadReleaseImages(releases, text)

\* C20: during ingestion at most one source fetch is outstanding at any time,
\* the fetch of source i+1 is requested only after the document of source i
\* has been completely merged, and sources are requested in list order
\* starting at index 0.
C20_OneFetchInListOrder == [](Len(fetches) <= 1) /\ [][RequestedInOrder]_vars

\* The last source is being fetched after the documents of the sources before
\* it were merged: the catalog holds a variant taken from a document.
C20_Witness ==
    /\ fetches = <<Len(releaseImagesList) - 1>>
    /\ currentDownloadingReleaseIndex = Len(releaseImagesList) - 1
    /\ \A i \in 0..(Len(releaseImagesList) - 2) : cache[i] # <<>>
    /\ \E i \in 1..Len(releases) :
          /\ releases[i].name = S_alt_server
          /\ \E j \in 1..Len(releases[i].versions) :
                \E k \in 1..Len(releases[i].versions[j].variants) :
                    /\ releases[i].versions[j].variants[k].arch = fromAbbreviation(A_aarch64)
                    /\ releases[i].versions[j].variants[k].imageType = "IMG"


\* The index of the last release image file
LastSource == Len(releaseImagesList) - 1

\* A step starts an ingestion pass: source 0 is requested
PassStarts == NewRequest /\ LastRequested(fetches') = 0

\* A step takes the answer for the last source and merges its document
LastDocumentMerged ==
    /\ fetches = <<LastSource>>
    /\ currentDownloadingReleaseIndex = LastSource
    /\ fetches' = <<>>
    /\ \E text \in Docs : releases' = loadReleaseImages(releases, text)

\* The ingestion is at rest
LoaderIdle == fetches = <<>> /\ timers = 0 /\ currentDownloadingReleaseIndex = 0

BeingUpdatedSteps ==
    /\ PassStarts => m_beingUpdated'
    /\ (m_beingUpdated /\ ~m_beingUpdated') => LastDocumentMerged

\* C21: beingUpdated is true after every step that starts an ingestion pass
\* and becomes false only in the step that merges the document of the last
\* source; whenever it is false no fetch is outstanding, no retry is pending
\* and the current source index is 0.
C21_BeingUpdatedUntilLastMerged == [](~m_beingUpdated => LoaderIdle) /\ [][BeingUpdatedSteps]_vars

\* A pass has completed: every source has a cached document and the flag is off.
C21_Witness ==
    /\ ~m_beingUpdated
    /\ \A i \in 0..LastSource : cache[i] # <<>>
    /\ releases # SeedCatalog(sections)

\* A step in which a page request fails: the request is gone and the
\* ingestion has not moved on.
FailureStep == Len(fetches') < Len(fetches) /\ currentDownloadingReleaseIndex' = currentDownloadingReleaseIndex

\* A failure schedules one restart and changes nothing else
OneRestartScheduled ==
    FailureStep => /\ timers = 0
                   /\ timers' = 1
                   /\ m_beingUpdated'
                   /\ releases' = releases
                   /\ cache' = cache

\* The restart begins the whole ingestion again at the first source
RestartFromFirst ==
    timers' < timers => /\ timers' = timers - 1
                        /\ currentDownloadingReleaseIndex' = 0
                        /\ fetches' = <<0>>
                        /\ m_beingUpdated'

\* C22: every source fetch failure, at whichever index and after however many
\* failures, schedules exactly one restart of the whole ingestion from source
\* 0; nothing limits the retries (a pending restart can always run), and
\* beingUpdated stays true from the failure until a pass completes.
C22_FailureRestartsIngestion ==
    /\ [][OneRestartScheduled]_vars
    /\ [][RestartFromFirst]_vars
    /\ [](timers > 0 => (m_beingUpdated /\ fetches = <<>> /\ ENABLED FetchReleases))
    /\ [][(m_beingUpdated /\ ~m_beingUpdated') => LastDocumentMerged]_vars

\* All variants of the catalog
AllVariants == UNION { UNION { { releases[i].versions[j].variants[k] : k \in 1..Len(releases[i].versions[j].variants) } : j \in 1..Len(releases[i].versions) } : i \in 1..Len(releases) }

\* A restart is pending after the fetch of the last source failed, in a pass
\* that followed a failed pass: three different documents were merged although
\* only the first two sources were ever answered.
C22_Witness ==
    /\ timers = 1
    /\ m_beingUpdated
    /\ currentDownloadingReleaseIndex = LastSource
    /\ \A i \in 0..(LastSource - 1) : cache[i] # <<>>
    /\ cache[LastSource] = <<>>
    /\ \E v \in AllVariants : v.md5 = M_d4
    /\ \E v \in AllVariants : v.imageType = "IMG"
    /\ \E v \in AllVariants : v.board = <<"P", " ", "C">>

\* The names of the releases the constructor seeded, by position
SeededNames == LET seed == SeedCatalog(sections) IN [k \in 1..Len(seed) |-> seed[k].name]

\* What a release is apart from the versions beneath it
ReleaseIdentity(r) == <<r.name, r.displayName>>

\* A step keeps the releases: the same count, and at each position the release
\* that was there
ReleasesKept ==
    /\ Len(releases') = Len(releases)
    /\ \A i \in 1..Len(releases) : ReleaseIdentity(releases'[i]) = ReleaseIdentity(releases[i])

\* C23: the merge never creates, removes or reorders releases: after any
\* sequence of updateUrl calls and ingestions the sequence of releases
\* (identity, count and order) is the seeded one; updates only change the
\* versions and variants beneath existing releases.
C23_ReleasesFixed == [](CatalogNames = SeededNames) /\ [][ReleasesKept]_vars

\* A document naming a solution that is not in the catalog was merged and so
\* were records for existing releases: versions were added beneath releases,
\* none was added for the unknown solution.
C23_Witness ==
    /\ \E i \in 0..LastSource : cache[i] = << << Entry(U_a, S_alt_education, <<A_x86_64>>, <<>>, <<>>) >> >>
    /\ \E i \in 1..Len(releases) : releases[i].name # S_custom /\ Len(releases[i].versions) = 2
    /\ \A i \in 1..Len(releases) : releases[i].name # S_alt_education


\* The version of release r that has this number
VersionOf(r, number) == r.versions[CHOOSE j \in 1..Len(r.versions) : r.versions[j].number = number]

\* The variant of version ver for this architecture and board
VariantOf(ver, arch, board) == ver.variants[CHOOSE k \in 1..Len(ver.variants) : ver.variants[k].arch = arch /\ ver.variants[k].board = board]

\* What record rec may do to the stored variant v, nv being v after the merge
VariantDataKept(rec, v, nv) ==
    IF v.arch = fromAbbreviation(rec.architecture) /\ v.board = rec.board
    THEN /\ IsEmpty(rec.url) => nv.url = v.url
         /\ Trimmed(rec.url) = Trimmed(v.url) => nv.url = v.url
         /\ IsEmpty(rec.sha256) => nv.shaHash = v.shaHash
         /\ Trimmed(rec.sha256) = Trimmed(v.shaHash) => nv.shaHash = v.shaHash
         /\ rec.size = 0 => nv.size = v.size
    ELSE nv = v

\* C24: an update never erases known data of an existing variant or version:
\* an empty incoming url or sha256 leaves the stored one unchanged, an incoming
\* size of 0 leaves the stored size unchanged, an incoming value equal to the
\* stored one after trimming white space causes no overwrite, and an invalid
\* incoming release date leaves the stored date unchanged.
C24_KnownDataKept ==
    \A rec \in EraseRecords :
        LET res == ManagerUpdateUrl(releases, rec).releases
            i   == FindRelease(releases, rec.name)
        IN  /\ \A o \in 1..Len(releases) : o # i => res[o] = releases[o]
            /\ \A j \in 1..Len(releases[i].versions) :
                   LET ver  == releases[i].versions[j]
                       nver == VersionOf(res[i], ver.number)
                   IN  IF ver.number = rec.version
                       THEN /\ ~IsValidDate(rec.releaseDate) => nver.releaseDate = ver.releaseDate
                            /\ \A k \in 1..Len(ver.variants) :
                                   VariantDataKept(rec, ver.variants[k],
                                       VariantOf(nver, ver.variants[k].arch, ver.variants[k].board))
                       ELSE nver = ver

\* A version with a valid release date holds a variant with a url, a hash and
\* a size: records with an empty url, an empty hash, size 0 and no date, and
\* records repeating the url and the hash with white space, are merged into it.
C24_Witness ==
    \E i \in 1..Len(releases) :
        \E j \in 1..Len(releases[i].versions) :
            /\ IsValidDate(releases[i].versions[j].releaseDate)
            /\ releases[i].versions[j].number = <<"4", "0">>
            /\ \E k \in 1..Len(releases[i].versions[j].variants) :
                  LET v == releases[i].versions[j].variants[k]
                  IN  v.url = U_a /\ v.shaHash = H_1f /\ v.size = 700 /\ v.arch = fromAbbreviation(A_aarch64)


\* The status text names a status less final than the stored status
LessFinal(text, status) ==
    \/ text = S_alpha /\ status # ALPHA
    \/ text = S_beta /\ status \notin {ALPHA, BETA}

\* Record rec addresses version j of the release it matches, with a status
\* less final than the version's
Regresses(rec, j) ==
    LET i == FindRelease(releases, rec.name)
    IN  /\ i # 0
        /\ j \in 1..Len(releases[i].versions)
        /\ releases[i].versions[j].number = rec.version
        /\ LessFinal(rec.status, releases[i].versions[j].status)

\* C30: an update for an existing version whose incoming status is less final
\* than the version's status is rejected as a whole: it returns false and
\* changes no field of the version and no variant of it, and inserts none,
\* even if the record carries a new date, a new url or a new (arch, board).
C30_RegressionRejectedWhole ==
    \A rec \in RegressRecords :
        (\E j \in 1..MaxVersions : Regresses(rec, j))
            => LET res == ManagerUpdateUrl(releases, rec)
               IN  ~res.ret /\ res.releases = releases

\* A record with a less final status brings a date the version does not
\* have, a url its variant does not have and an architecture none of its
\* variants has.
C30_Witness ==
    \E rec \in RegressRecords :
        \E j \in 1..MaxVersions :
            /\ Regresses(rec, j)
            /\ LET ver == releases[FindRelease(releases, rec.name)].versions[j]
               IN  /\ IsValidDate(rec.releaseDate)
                   /\ rec.releaseDate # ver.releaseDate
                   /\ ver.status = FINAL
                   /\ Len(ver.variants) > 0
                   /\ \A k \in 1..Len(ver.variants) :
                         /\ ver.variants[k].arch # fromAbbreviation(rec.architecture)
                         /\ ver.variants[k].url # rec.url


\* An abbreviation that names architecture i (0-based) occurs in the file
\* name when letter case is ignored
NamesArchitecture(i, filename) ==
    \E j \in 1..Len(m_all[i + 1].abbreviation) :
        /\ m_all[i + 1].abbreviation[j] # <<>>
        /\ ContainsIgnoreCase(filename, m_all[i + 1].abbreviation[j])

\* The links of the entries of the documents that were merged last
CachedLinks == UNION { { ymlToQString(cache[i][1][k].link) : k \in 1..Len(cache[i][1]) } : i \in { n \in 0..LastSource : cache[n] # <<>> } }

\* C28: fromFilename returns the first architecture in registry order one of
\* whose abbreviations occurs in the file name when letter case is ignored,
\* and returns none (nullptr) when the file name contains no architecture
\* abbreviation.
C28_FilenameHeuristic ==
    \A filename \in FilenameArgs \cup CachedLinks :
        IF \E i \in 0..(_ARCHCOUNT - 1) : NamesArchitecture(i, filename)
        THEN /\ fromFilename(filename) # nullptr
             /\ NamesArchitecture(fromFilename(filename), filename)
             /\ \A k \in 0..(fromFilename(filename) - 1) : ~NamesArchitecture(k, filename)
        ELSE fromFilename(filename) = nullptr


\* The positions of the releases named "custom"
CustomPositions == { i \in 1..Len(releases) : releases[i].name = S_custom }

\* C29: after startup and after any sequence of setLocalFile calls (with
\* existing or non-existing paths) and updateUrl calls, the "custom" release
\* is in the catalog and has exactly one version holding exactly one variant;
\* a setLocalFile call with a path that does not exist changes nothing.
C29_CustomSingleVersionVariant ==
    /\ Cardinality(CustomPositions) = 1
    /\ \A i \in CustomPositions :
          /\ Len(releases[i].versions) = 1
          /\ Len(releases[i].versions[1].variants) = 1
          /\ \A path \in LocalPaths :
                ~FileExists(ToLocalFile(path)) => setLocalFile(releases[i], path) = releases[i]


Failures == {"FAILED_DOWNLOAD", "FAILED_VERIFICATION", "FAILED"}

\* The edges of the download machine: PREPARING -> DOWNLOADING ->
\* (DOWNLOAD_RESUMING <-> DOWNLOADING) -> DOWNLOAD_VERIFYING -> READY, and the
\* edges into a failure state
MachineEdges ==
    { <<"PREPARING", "DOWNLOADING">>, <<"DOWNLOADING", "DOWNLOAD_RESUMING">>,
      <<"DOWNLOAD_RESUMING", "DOWNLOADING">>, <<"DOWNLOADING", "DOWNLOAD_VERIFYING">>,
      <<"DOWNLOAD_VERIFYING", "READY">> }
    \cup ({"PREPARING", "DOWNLOADING", "DOWNLOAD_RESUMING", "DOWNLOAD_VERIFYING"} \X Failures)

FollowsMachine(statuses) ==
    \A i \in 1..(Len(statuses) - 1) : <<statuses[i], statuses[i + 1]>> \in MachineEdges

\* The part of a sequence of statuses from the first DOWNLOADING on
FromDownloading(statuses) ==
    IF \E i \in 1..Len(statuses) : statuses[i] = "DOWNLOADING"
    THEN SubSeq(statuses, CHOOSE i \in 1..Len(statuses) :
                              /\ statuses[i] = "DOWNLOADING"
                              /\ \A j \in 1..(i - 1) : statuses[j] # "DOWNLOADING",
                Len(statuses))
    ELSE <<>>

\* C25: for a variant with a url, the statuses a download attempt goes through
\* from DOWNLOADING on, in download() and in the completion handler, follow
\* the edges of the machine, so that READY is entered from DOWNLOAD_VERIFYING
\* only.
C25_DownloadFollowsMachine ==
    \A p \in VariantPositions :
        LET v == VariantAt(p)
        IN  /\ (~IsEmpty(v.url) /\ ~v.transfer) =>
                   \A ret \in DownloadFileResults(v.url), fsize \in DownloadedSizes :
                       FollowsMachine(FromDownloading(download(v, ret, fsize).statuses))
            /\ v.transfer =>
                   \A hash \in ComputedHashes, checkResult \in CheckResults,
                      renamed \in BOOLEAN, fsize \in DownloadedSizes :
                       FollowsMachine(<<v.status>> \o
                           onFileDownloaded(v, v.temporaryImage, hash, checkResult, renamed, fsize).statuses)

\* C26: download() on a variant in a failure state leaves a status that is
\* no failure and an empty error string, whatever its url and image are.
C26_DownloadRecovers ==
    \A p \in VariantPositions :
        LET v == VariantAt(p)
        IN  (v.status \in Failures /\ ~v.transfer) =>
                \A ret \in DownloadFileResults(v.url), fsize \in DownloadedSizes :
                    LET w == download(v, ret, fsize).variant
                    IN  w.status \notin Failures /\ IsEmpty(w.error)

\* C27: resetStatus() leaves READY when the variant has an image and PREPARING
\* otherwise, and in both cases an empty error string and a progress of zero.
C27_ResetStatusClears ==
    \A p \in VariantPositions :
        LET v == VariantAt(p)
            w == resetStatus(v)
        IN  /\ w.status = IF ~IsEmpty(v.image) THEN "READY" ELSE "PREPARING"
            /\ IsEmpty(w.error)
            /\ w.progress # <<>> => w.progress[1] = 0


\* New versions that are not FINAL, with the numbers of the update records
PrereleaseVersions ==
    { NewVersion(n, s, NullDate) : n \in VersionNumbers, s \in {ALPHA, BETA} }

\* C31: adding a new version that is not FINAL at a position at or before
\* m_selectedVersion moves the index on by one, so that the version selected
\* before is the version selected after; adding it behind the selected position
\* or at the end leaves the index as it is.
C31_InsertionKeepsSelection ==
    \A k \in 1..Len(releases) : \A version \in PrereleaseVersions :
        LET r   == releases[k]
            i   == AddVersionIndex(r.versions, version.number)
            res == addVersion(r, version)
        IN  ~HasNumber(r, version.number) =>
                IF i < Len(r.versions) /\ i <= r.selectedVersion
                THEN /\ res.selectedVersion = r.selectedVersion + 1
                     /\ selectedVersion(r) # 0 =>
                            /\ selectedVersion(res) = selectedVersion(r) + 1
                            /\ res.versions[selectedVersion(res)] = r.versions[selectedVersion(r)]
                ELSE /\ res.selectedVersion = r.selectedVersion
                     /\ selectedVersion(r) # 0 =>
                            res.versions[selectedVersion(res)] = r.versions[selectedVersion(r)]

\* A release whose selected version is not the first, that holds a version
\* that is not FINAL at or before the selected position, and into which a
\* further one goes at the selected position and another one behind it.
C31_Witness ==
    \E k \in 1..Len(releases) :
        LET r == releases[k]
        IN  /\ r.selectedVersion >= 1
            /\ selectedVersion(r) # 0
            /\ \E j \in 1..(r.selectedVersion + 1) : r.versions[j].status # FINAL
            /\ \E version \in PrereleaseVersions :
                   /\ ~HasNumber(r, version.number)
                   /\ AddVersionIndex(r.versions, version.number) = r.selectedVersion
            /\ \E version \in PrereleaseVersions :
                   /\ ~HasNumber(r, version.number)
                   /\ AddVersionIndex(r.versions, version.number) > r.selectedVersion


\* C32: every release with at least one version has
\* 0 <= m_selectedVersion < m_versions.count().
C32_SelectedVersionInRange ==
    \A k \in 1..Len(releases) :
        Len(releases[k].versions) > 0 =>
            /\ 0 <= releases[k].selectedVersion
            /\ releases[k].selectedVersion < Len(releases[k].versions)


\* What a fresh evaluation of the filter shows
FreshRows == invalidateFilter(releases, m_frontPage, m_filterText, m_filterArchitecture)

\* C33: a step that changes the selection, the architecture filter, the text
\* filter or the front-page flag leaves the view as a fresh evaluation of the
\* filter gives it, and every other step leaves the view as it was.
C33_ViewReevaluatedOnTriggers ==
    [][ IF \/ m_selectedIndex' # m_selectedIndex
           \/ m_filterArchitecture' # m_filterArchitecture
           \/ m_filterText' # m_filterText
           \/ m_frontPage' # m_frontPage
        THEN proxyRows' = FreshRows'
        ELSE proxyRows' = proxyRows ]_vars


\* A step in which a page request of the ingestion succeeded: the source
\* index moves while no retry is scheduled or started.
FetchSucceeds == timers' = timers /\ currentDownloadingReleaseIndex' # currentDownloadingReleaseIndex

\* A step in which a page request of the ingestion failed
FetchFails == timers' > timers

\* The step stores the document it merges, and nothing else, in the cache
\* file of the source the index names.
StoresFetched ==
    \E text \in Docs :
        /\ cache' = [cache EXCEPT ![currentDownloadingReleaseIndex] = <<text>>]
        /\ releases' = loadReleaseImages(releases, text)

\* Every page request in flight asks for the source the index names.
RequestsForCurrentSource ==
    \A n \in 1..Len(fetches) : fetches[n] = currentDownloadingReleaseIndex

\* C34 as stated: a cache file changes only in a step in which the fetch of
\* its own source succeeded, and is then exactly the fetched document; a
\* failed fetch and every other step leave the cache as it is.
C34_CacheOnlyFetched ==
    /\ []RequestsForCurrentSource
    /\ [][ IF FetchSucceeds THEN StoresFetched ELSE cache' = cache ]_vars

\* The variant whose MD5SUM page is answered in the step has this url and gets
\* this sum.
Md5sumAnswered(url, sum) ==
    \E p \in VariantPositions :
        /\ VariantAt(p).md5sum
        /\ VariantAt(p).url = url
        /\ VariantAt(p)' = [VariantAt(p) EXCEPT !.md5sum = FALSE, !.md5 = sum]

\* The cache file differs from what it was in nothing but the md5 of entries
\* whose link is the url of the variant whose MD5SUM page is answered.
Md5Rewritten(old, new) ==
    /\ old # <<>> /\ new # <<>>
    /\ Len(new[1]) = Len(old[1])
    /\ \A k \in 1..Len(old[1]) :
           /\ [new[1][k] EXCEPT !.md5 = old[1][k].md5] = old[1][k]
           /\ new[1][k].md5 # old[1][k].md5 =>
                  /\ Len(new[1][k].md5) = 1
                  /\ Md5sumAnswered(ymlToQString(old[1][k].link), new[1][k].md5[1])

\* C34, amended: a cache file is written with exactly the fetched document in
\* the step in which the fetch of its own source succeeded; a failed fetch
\* writes nothing; the only other change of a cache file is the md5 that the
\* MD5SUM page of a variant puts into the entries whose link is its url.
C34_CacheWriters ==
    /\ []RequestsForCurrentSource
    /\ [][ IF FetchSucceeds THEN StoresFetched
           ELSE IF FetchFails THEN cache' = cache
           ELSE \A k \in DOMAIN cache : cache'[k] # cache[k] => Md5Rewritten(cache[k], cache'[k]) ]_vars

\* One cache file holds a document as it was fetched, a second one holds a
\* document in which an md5 was rewritten, and the third source has not been
\* fetched in this pass, which is a pass started again after a failure or
\* after its end.
C34_Witness ==
    \E k, j \in DOMAIN cache :
        /\ cache[k] # <<>> /\ cache[k][1] \in Docs
        /\ cache[j] # <<>> /\ cache[j][1] \notin Docs
        /\ currentDownloadingReleaseIndex <= 1
        /\ \A i \in DOMAIN cache : cache[i] # <<>>


\* The step tells the download of the variant at p to cancel
CancelStep(p) ==
    VariantAt(p).transfer /\ ~VariantAt(p).cancelled /\ VariantAt(p)'.cancelled

\* The step is the report of the cancelled download of the variant at p
CancelledReport(p) ==
    VariantAt(p).transfer /\ VariantAt(p).cancelled /\ ~VariantAt(p)'.transfer

\* C35: the step that cancels the download of a variant and the step in which
\* the download reports Cancelled change nothing of the catalog but, at most,
\* the status of that variant: the other variants, the versions and the
\* releases, the url, size, image and error string of the variant, the
\* selection, the view and the state of the ingestion with its source index
\* are what they were.
C35_CancelChangesOnlyTransfer ==
    [][ \A p \in VariantPositions :
            (CancelStep(p) \/ CancelledReport(p)) =>
                /\ releases' = [releases EXCEPT ![p[1]].versions[p[2]].variants[p[3]] = VariantAt(p)']
                /\ VariantAt(p)' = [VariantAt(p) EXCEPT !.status = VariantAt(p)'.status,
                                                        !.transfer = VariantAt(p)'.transfer,
                                                        !.cancelled = VariantAt(p)'.cancelled]
                /\ UNCHANGED <<sections, job, m_selectedIndex, viewVars, loaderVars, crashed>> ]_vars

\* A variant whose download was cancelled and has reported it, still in the
\* status the download had reached, while a pass of the ingestion is at its
\* second or third source.
C35_Witness ==
    /\ m_beingUpdated
    /\ currentDownloadingReleaseIndex >= 1
    /\ \E p \in VariantPositions :
           /\ VariantAt(p).status \in {"DOWNLOADING", "DOWNLOAD_RESUMING", "DOWNLOAD_VERIFYING"}
           /\ ~VariantAt(p).transfer


\* C36: if from some point on no page request fails, then beingUpdated
\* becomes false and stays false, with every source fetched and merged.
C36_UpdateEnds ==
    (<>[][~FetchFails]_vars) => <>[](~m_beingUpdated /\ LoaderIdle /\ \A i \in DOMAIN cache : cache[i] # <<>>)

\* A pass has ended: beingUpdated is false, every source is cached, no timer
\* and no page request is pending.
C36_Witness ==
    /\ ~m_beingUpdated
    /\ LoaderIdle
    /\ \A i \in DOMAIN cache : cache[i] # <<>>

\* The entries of a document that loadReleaseImages hands to updateUrl
MergedRecords(d) ==
    { EntryRecord(d[k]) : k \in { k \in 1..Len(d) :
          LET rec == EntryRecord(d[k])
          IN  ~IsEmpty(rec.name) /\ ~IsEmpty(rec.url) /\ ~IsEmpty(rec.architecture) } }

\* Merging rec now neither removes a version of a non-local release nor is
\* refused for its status
MergesWithoutLoss(rec) ==
    LET i == FindRelease(releases, rec.name)
        found == FindVersion(releases[i].versions, rec.version)
        upd == ReleaseUpdateUrl(releases[i], rec)
    IN  (i # 0 /\ ~isLocal(releases[i])) =>
            /\ Len(upd.release.versions) >= Len(releases[i].versions)
            /\ found # 0 => StatusAccepted(StatusFromText(rec.status), releases[i].versions[found].status)

\* C37: when the catalog is filled by the loader alone (cached, built-in and
\* downloaded documents, any passes and retries), every non-local release has
\* at most one version, numbered "9" and FINAL, and merging any entry of any
\* document evicts no version and is not refused for status regression.
C37_LoaderCatalogShape ==
    /\ \A i \in 1..Len(releases) : ~isLocal(releases[i]) =>
           /\ Len(releases[i].versions) <= 1
           /\ \A j \in 1..Len(releases[i].versions) :
                  /\ releases[i].versions[j].number = <<"9">>
                  /\ releases[i].versions[j].status = FINAL
    /\ \A d \in Docs : \A rec \in MergedRecords(d) : MergesWithoutLoss(rec)

\* C37 witness: after a start from cached or built-in documents and a finished
\* pass of downloads, a non-local release holds its one version "9" with at
\* least two variants, so it was merged into more than once
C37_Witness ==
    /\ ~m_beingUpdated
    /\ LoaderIdle
    /\ \A i \in DOMAIN cache : cache[i] # <<>>
    /\ \E i \in 1..Len(releases) :
           /\ ~isLocal(releases[i])
           /\ Len(releases[i].versions) = 1
           /\ releases[i].versions[1].number = <<"9">>
           /\ Len(releases[i].versions[1].variants) >= 2

\* C38: after any sequence of setFilterArchitecture calls the filter is a
\* valid architecture index, 0 <= filterArchitecture < _ARCHCOUNT (a call with
\* an index out of range changes nothing).
C38_FilterArchitectureValid == m_filterArchitecture >= 0 /\ m_filterArchitecture < _ARCHCOUNT

\* What the claim says of onFileDownloaded for variant v and these outcomes
FileDownloadedAsStated(v, hash, checkResult, renamed, fsize) ==
    LET r == onFileDownloaded(v, v.temporaryImage, hash, checkResult, renamed, fsize)
        good == /\ IsEmpty(v.shaHash) \/ v.shaHash = hash
                /\ checkResult \notin {"ISOMD5SUM_CHECK_FAILED", "ISOMD5SUM_FILE_NOT_FOUND"}
                /\ renamed
    IN  /\ ~r.nullDeref
        /\ r.variant.status \in {"READY", "FAILED_DOWNLOAD"}
        /\ r.variant.status = "READY" <=> good
        /\ ~good => /\ r.variant.status = "FAILED_DOWNLOAD"
                    /\ ~IsEmpty(r.variant.error)
                    /\ r.variant.image = v.image

\* C39: onFileDownloaded, for every variant with a file download under way and
\* every computed hash, media check result, rename result and file size,
\* leaves READY or FAILED_DOWNLOAD: READY exactly when the expected sha256 is
\* empty or equal to the hash, the media check reported neither failure nor
\* file-not-found and the rename succeeded; otherwise FAILED_DOWNLOAD with a
\* non-empty errorString and the image path as it was.
C39_FileDownloadedOutcome ==
    \A p \in VariantPositions : VariantAt(p).transfer =>
        \A hash \in ComputedHashes, checkResult \in CheckResults, renamed \in BOOLEAN, fsize \in DownloadedSizes :
            FileDownloadedAsStated(VariantAt(p), hash, checkResult, renamed, fsize)

\* C39 witness: a variant that expects a sha256 had its file downloaded and
\* the rename of the .part file failed
C39_Witness ==
    \E p \in VariantPositions :
        /\ ~VariantAt(p).transfer
        /\ ~IsEmpty(VariantAt(p).shaHash)
        /\ VariantAt(p).status = "FAILED_DOWNLOAD"
        /\ VariantAt(p).error = E_rename

\* Place of a D-Bus method in the order of RestoreJob::work
StepRank(method) ==
    CASE method = "GetManagedObjects" -> 0
      [] method = "Unmount" -> 1
      [] method = "Format dos" -> 2
      [] method = "CreatePartition" -> 3
      [] method = "Format vfat" -> 4

\* The call is a step that failed: a format answered with an error other than
\* NoReply, or a partition creation without a valid reply
StepFailed(c) ==
    \/ c.method \in {"Format dos", "Format vfat"} /\ c.reply = "Failed"
    \/ c.method = "CreatePartition" /\ c.reply # "Valid"

\* The calls come in the order of the steps, each step but the unmounting at
\* most once and none left out
StepsInOrder ==
    /\ \A k, l \in 1..Len(job.calls) : k < l =>
           /\ StepRank(job.calls[k].method) <= StepRank(job.calls[l].method)
           /\ StepRank(job.calls[k].method) = StepRank(job.calls[l].method) => job.calls[k].method = "Unmount"
    /\ \A l \in 1..Len(job.calls) : StepRank(job.calls[l].method) >= 3 =>
           \E k \in 1..(l - 1) : StepRank(job.calls[k].method) = StepRank(job.calls[l].method) - 1
    /\ \A l \in 1..Len(job.calls) : job.calls[l].method = "Unmount" =>
           job.objects[job.calls[l].target].filesystem /\ job.objects[job.calls[l].target].onDrive

\* The code handed to qApp->exit is the one of the step that ended work()
ExitCodeOfLastStep ==
    Len(job.exits) = 1 =>
        LET last == job.calls[Len(job.calls)]
            code == job.exits[1]
        IN  /\ code \in 0..3
            /\ code = 1 <=> (last.method = "Format dos" /\ last.reply = "Failed")
            /\ code = 2 <=> (last.method = "CreatePartition" /\ last.reply # "Valid")
            /\ code = 3 <=> (last.method = "Format vfat" /\ last.reply = "Failed")
            /\ code = 0 <=> (last.method = "Format vfat" /\ last.reply \in {"Valid", "NoReply"})
            /\ code = 0 => \A k \in 1..Len(job.calls) : ~StepFailed(job.calls[k])

============================================================================
